---- MODULE Spec2Model ----
(***************************************************************************)
(* A model of the response package of MintzyG/FastUtilitiesNet: the        *)
(* process-wide configuration store, the interceptor registry, the         *)
(* Response entity with its builder methods, the bounded trace and the     *)
(* delivery pipeline (Send / SendWithContext / sendInternal).              *)
(*                                                                         *)
(* Go strings are TLA+ strings (\o is Go's +, Len is len), Go pointers to  *)
(* Response are indices into the sequence heap, and a Go slice is a        *)
(* sequence (index i of the code is index i+1 here).                       *)
(***************************************************************************)
EXTENDS Integers, Sequences, FiniteSets, TLC

VARIABLES
    globalConfig,   \* config.go: globalConfig
    interceptors,   \* interceptors.go: the registry, a sequence of interceptor ids
    heap,           \* the allocated Response objects; a *Response is an index
    h,              \* the reference the handler's chain currently holds (0: none)
    last,           \* the last builder call: receiver, result, argument, state before
    ops,            \* number of calls the handler has made
    pc,             \* position of the delivery
    d,              \* the delivery's locals (receiver, ctx, snapshot, loop index, ...)
    calls,          \* interceptor invocations of the delivery, in order
    dest,           \* operations performed on the http.ResponseWriter, in order
    fed,            \* harness: the calls made so far, as the caller gave them
    mu,             \* config.go: globalConfigMu, a sync.RWMutex
    interceptorsMu, \* interceptors.go: interceptorsMu, a sync.RWMutex
    gor             \* the goroutines calling SetConfig / GetConfig concurrently

vars ==
    <<globalConfig, interceptors, heap, h, last, ops, pc, d, calls, dest, fed, mu,
      interceptorsMu, gor>>

-----------------------------------------------------------------------------
(* Bounds of the model *)

MaxOps == 4         \* calls a handler makes before it delivers
MaxCap == 2         \* largest trace capacity the trace harness fixes
MaxFed == 4         \* entries the trace harness supplies in total
MaxCall == 2        \* entries of one variadic AddTrace / AddPrefixedTrace call
MaxApp == 3         \* entries the append harness supplies in total
MaxRounds == 1      \* calls each goroutine of the concurrent store makes
MaxLimit == 2       \* largest MaxInterceptorAmount the registry harness fixes
MaxAdds == 4        \* AddInterceptor calls the registry harness makes
MaxTaskCalls == 1   \* calls each goroutine of the registry makes outside a delivery
MaxAdminCalls == 2  \* calls the goroutines beside a delivery make in total

-----------------------------------------------------------------------------
(* Strings and formatting *)

Digit == <<"0", "1", "2", "3", "4", "5", "6", "7", "8", "9">>

RECURSIVE Itoa(_)
\* fmt's %d
Itoa(n) ==
    IF n < 0 THEN "-" \o Itoa(-n)
    ELSE IF n < 10 THEN Digit[n + 1]
    ELSE Itoa(n \div 10) \o Digit[(n % 10) + 1]

\* errors.go: (*StatusCodeError).Error
StatusCodeError(code) == "invalid HTTP status code: " \o Itoa(code)

\* errors.go: (*SizeLimitError).Error
SizeLimitError(size, max) ==
    "response size (" \o Itoa(size) \o " bytes) exceeds limit (" \o Itoa(max) \o " bytes)"

\* errors.go: (*EncodingError).Error
EncodingError(inner) == "encoding failed: " \o inner

\* tracing.go: truncMsg
truncMsg(n) == "Error: (trace truncated, max size: " \o Itoa(n) \o ")"

-----------------------------------------------------------------------------
(* Configuration store (config.go) *)

defaultConfig ==
    [MaxTraceSize         |-> 50,
     ResponseSizeLimit    |-> 10 * 1024 * 1024,
     MaxInterceptorAmount |-> 20,
     DefaultContentType   |-> "application/json",
     EnableSizeValidation |-> TRUE]

\* A faulty validation block: only a zero field counts as unset, a negative
\* number is kept
normalize_ZeroOnly(config) ==
    [MaxTraceSize         |-> IF config.MaxTraceSize = 0
                              THEN 50 ELSE config.MaxTraceSize,
     ResponseSizeLimit    |-> IF config.ResponseSizeLimit = 0
                              THEN 10 * 1024 * 1024 ELSE config.ResponseSizeLimit,
     MaxInterceptorAmount |-> IF config.MaxInterceptorAmount = 0
                              THEN 20 ELSE config.MaxInterceptorAmount,
     DefaultContentType   |-> IF config.DefaultContentType = ""
                              THEN "application/json" ELSE config.DefaultContentType,
     EnableSizeValidation |-> config.EnableSizeValidation]

\* The validation block shared by SetConfig and WithConfig
normalize(config) ==
    [MaxTraceSize         |-> IF config.MaxTraceSize <= 0
                              THEN defaultConfig.MaxTraceSize
                              ELSE config.MaxTraceSize,
     ResponseSizeLimit    |-> IF config.ResponseSizeLimit <= 0
                              THEN defaultConfig.ResponseSizeLimit
                              ELSE config.ResponseSizeLimit,
     MaxInterceptorAmount |-> IF config.MaxInterceptorAmount <= 0
                              THEN defaultConfig.MaxInterceptorAmount
                              ELSE config.MaxInterceptorAmount,
     DefaultContentType   |-> IF config.DefaultContentType = ""
                              THEN defaultConfig.DefaultContentType
                              ELSE config.DefaultContentType,
     EnableSizeValidation |-> config.EnableSizeValidation]

getConfig == globalConfig

\* The zero value of Config
zeroConfig ==
    [MaxTraceSize         |-> 0,
     ResponseSizeLimit    |-> 0,
     MaxInterceptorAmount |-> 0,
     DefaultContentType   |-> "",
     EnableSizeValidation |-> FALSE]

\* A faulty resolution: the unset fields of an override are filled in from the
\* process-wide configuration
getResponseConfig_Merges(r) ==
    [MaxTraceSize         |-> IF r.config.MaxTraceSize > 0
                              THEN r.config.MaxTraceSize
                              ELSE globalConfig.MaxTraceSize,
     ResponseSizeLimit    |-> IF r.config.ResponseSizeLimit > 0
                              THEN r.config.ResponseSizeLimit
                              ELSE globalConfig.ResponseSizeLimit,
     MaxInterceptorAmount |-> IF r.config.MaxInterceptorAmount > 0
                              THEN r.config.MaxInterceptorAmount
                              ELSE globalConfig.MaxInterceptorAmount,
     DefaultContentType   |-> IF r.config.DefaultContentType # ""
                              THEN r.config.DefaultContentType
                              ELSE globalConfig.DefaultContentType,
     EnableSizeValidation |-> r.config.EnableSizeValidation]

getResponseConfig(r) ==
    IF \/ r.config.MaxTraceSize > 0
       \/ r.config.ResponseSizeLimit > 0
       \/ r.config.MaxInterceptorAmount > 0
       \/ r.config.DefaultContentType # ""
    THEN r.config
    ELSE getConfig

-----------------------------------------------------------------------------
(* The Response entity (interceptors.go: type Response) and its constructors *)

ZeroTime == "0001-01-01T00:00:00Z"      \* the zero time.Time
Now == "2026-11-02T22:40:32Z"           \* what time.Now() returns: never the zero time

NoData == [kind |-> "nil", bytes |-> 0]

\* The zero value of Response
zeroResponse ==
    [Module         |-> "",
     Message        |-> "",
     Data           |-> NoData,
     Trace          |-> <<>>,
     Timestamp      |-> ZeroTime,
     PaginationData |-> <<>>,
     Code           |-> 0,
     ContentType    |-> "",
     TracePrefix    |-> "",
     config         |-> zeroConfig]

\* What a method hands back: the receiver's state after the call, and the state
\* of a newly allocated Response when the returned pointer is not the receiver
\* (<<>> when the method returns r itself).
Same(r) == [recv |-> r, fresh |-> <<>>]
Fresh(r, n) == [recv |-> r, fresh |-> <<n>>]

\* msg ...string: the optional first message
firstMsg(msg) == IF Len(msg) > 0 THEN msg[1] ELSE ""

\* A faulty constructor: the content type is the built-in default, whatever
\* the process-wide configuration holds
newBaseResponse_BuiltInType(code, msg) ==
    [zeroResponse EXCEPT
        !.Code = code,
        !.Message = firstMsg(msg),
        !.Timestamp = Now,
        !.ContentType = defaultConfig.DefaultContentType]

newBaseResponse(code, msg) ==
    [zeroResponse EXCEPT
        !.Code = code,
        !.Message = firstMsg(msg),
        !.Timestamp = Now,
        !.ContentType = getConfig.DefaultContentType]

\* cfg ...*Config: <<>> (none), <<<<>>>> (a nil pointer) or <<<<c>>>>
Base(cfg) ==
    LET conf == IF Len(cfg) > 0 /\ cfg[1] # <<>> THEN cfg[1][1] ELSE getConfig
    IN  [zeroResponse EXCEPT
            !.ContentType = conf.DefaultContentType,
            !.config = conf]

\* net/http's status constants used by the status-named constructors and setters
HTTPStatus ==
    [OK |-> 200, Created |-> 201, Accepted |-> 202, NoContent |-> 204,
     BadRequest |-> 400, Unauthorized |-> 401, PaymentRequired |-> 402,
     Forbidden |-> 403, NotFound |-> 404, MethodNotAllowed |-> 405,
     Conflict |-> 409, UnprocessableEntity |-> 422, TooManyRequests |-> 429,
     InternalServerError |-> 500, NotImplemented |-> 501, BadGateway |-> 502,
     ServiceUnavailable |-> 503]

StatusNames == DOMAIN HTTPStatus

\* func OK(msg ...string), func NotFound(msg ...string), ...
StatusConstructor(name, msg) == newBaseResponse(HTTPStatus[name], msg)

InternalServerError(msg) == StatusConstructor("InternalServerError", msg)

applyMessage(r, msg) == [r EXCEPT !.Message = firstMsg(msg)]

\* func (r *Response) OK(msg ...string), func (r *Response) NotFound(msg ...string), ...
StatusSetter(r, name, msg) ==
    Same(applyMessage([r EXCEPT !.Code = HTTPStatus[name]], msg))

-----------------------------------------------------------------------------
(* Trace accumulator (tracing.go) *)

\* A trace argument (any): a string, an error, a fmt.Stringer or anything else
\* A faulty type switch: every entry is taken for text
IsText_Any(t) == TRUE

IsText(t) == t.kind \in {"string", "error", "stringer"}

RECURSIVE appendLoop_NoMarker(_, _, _, _, _)
\* A faulty loop: a caller-facing entry that finds the trace full is dropped
\* without the truncation marker being written
appendLoop_NoMarker(tr, config, prefix, force, trace) ==
    IF trace = <<>> THEN tr
    ELSE
        LET t == Head(trace)
            traceStr == t.text
            traceStrFull == prefix \o ": " \o traceStr
        IN  IF ~IsText(t)
            THEN appendLoop_NoMarker(tr, config, prefix, force, Tail(trace))
            ELSE IF Len(tr) < config.MaxTraceSize
            THEN appendLoop_NoMarker(Append(tr, traceStrFull), config, prefix, force,
                                     Tail(trace))
            ELSE IF force /\ config.MaxTraceSize > 0
            THEN appendLoop_NoMarker([tr EXCEPT ![config.MaxTraceSize] = traceStr],
                                     config, prefix, force, Tail(trace))
            ELSE tr

RECURSIVE appendLoop_Overwrites(_, _, _, _, _)
\* A faulty loop: a caller-facing entry that finds the trace full is written
\* over the last slot, as an internal one is
appendLoop_Overwrites(tr, config, prefix, force, trace) ==
    IF trace = <<>> THEN tr
    ELSE
        LET t == Head(trace)
            traceStr == t.text
            traceStrFull == prefix \o ": " \o traceStr
        IN  IF ~IsText(t)
            THEN appendLoop_Overwrites(tr, config, prefix, force, Tail(trace))
            ELSE IF Len(tr) < config.MaxTraceSize
            THEN appendLoop_Overwrites(Append(tr, traceStrFull), config, prefix, force,
                                       Tail(trace))
            ELSE IF config.MaxTraceSize > 0
            THEN appendLoop_Overwrites([tr EXCEPT ![config.MaxTraceSize] = traceStr],
                                       config, prefix, force, Tail(trace))
            ELSE appendLoop_Overwrites(tr, config, prefix, force, Tail(trace))

RECURSIVE appendLoop(_, _, _, _, _)
\* The for loop of appendTrace over the entries not yet processed
appendLoop(tr, config, prefix, force, trace) ==
    IF trace = <<>> THEN tr
    ELSE
        LET t == Head(trace)
            traceStr == t.text
            traceStrFull == prefix \o ": " \o traceStr
        IN  IF ~IsText(t)
            THEN appendLoop(tr, config, prefix, force, Tail(trace))
            ELSE IF Len(tr) < config.MaxTraceSize
            THEN appendLoop(Append(tr, traceStrFull), config, prefix, force, Tail(trace))
            ELSE IF force /\ config.MaxTraceSize > 0
            THEN appendLoop([tr EXCEPT ![config.MaxTraceSize] = traceStr],
                            config, prefix, force, Tail(trace))
            ELSE IF ~force /\ config.MaxTraceSize > 0
            THEN IF tr[config.MaxTraceSize] # truncMsg(config.MaxTraceSize)
                 THEN [tr EXCEPT ![config.MaxTraceSize] = truncMsg(config.MaxTraceSize)]
                 ELSE tr
            ELSE appendLoop(tr, config, prefix, force, Tail(trace))

\* A faulty append: the capacity is always the process-wide one, an override
\* the response carries is ignored
appendTrace_GlobalCapacity(r, prefix, force, trace) ==
    Same([r EXCEPT !.Trace = appendLoop(r.Trace, getConfig, prefix, force, trace)])

appendTrace(r, prefix, force, trace) ==
    Same([r EXCEPT !.Trace = appendLoop(r.Trace, getResponseConfig(r), prefix, force, trace)])

\* A faulty internal append: it does not force, a full trace gets the marker
appendTraceInternal_NotForced(r, prefix, trace) == appendTrace(r, prefix, FALSE, trace)

appendTraceInternal(r, prefix, trace) == appendTrace(r, prefix, TRUE, trace)

\* A faulty AddTrace: the response's TracePrefix is ignored
AddTrace_IgnoresPrefix(r, trace) == appendTrace(r, "trace", FALSE, trace)

AddTrace(r, trace) ==
    IF r.TracePrefix = ""
    THEN appendTrace(r, "trace", FALSE, trace)
    ELSE appendTrace(r, r.TracePrefix, FALSE, trace)

AddPrefixedTrace(r, prefix, trace) ==
    IF prefix = ""
    THEN appendTrace(r, "trace", FALSE, trace)
    ELSE appendTrace(r, prefix, FALSE, trace)

-----------------------------------------------------------------------------
(* Builder methods (interceptors.go, pagination.go, helpers.go) *)

\* WithConfig storing the override as given, no field defaulted
WithConfig_Raw(r, config) ==
    Same([r EXCEPT
            !.config = config,
            !.ContentType =
                IF r.ContentType = "" \/ r.ContentType = getConfig.DefaultContentType
                THEN config.DefaultContentType
                ELSE r.ContentType])

WithConfig(r, config) ==
    LET c == normalize(config)
    IN  Same([r EXCEPT
            !.config = c,
            !.ContentType =
                IF r.ContentType = "" \/ r.ContentType = getConfig.DefaultContentType
                THEN c.DefaultContentType
                ELSE r.ContentType])

WithContentType(r, ctype) == Same([r EXCEPT !.ContentType = ctype])

WithModule(r, module) == Same([r EXCEPT !.Module = module])

WithMsg(r, message) == Same([r EXCEPT !.Message = message])

WithData(r, data) == Same([r EXCEPT !.Data = data])

WithTracePrefix(r, prefix) == Same([r EXCEPT !.TracePrefix = prefix])

\* math.Ceil(float64(total) / float64(limit)) for limit >= 1, total >= 0
ceilDiv(total, limit) == (total + limit - 1) \div limit

CreatePaginationMeta(params, total) ==
    LET totalPages == ceilDiv(total, params.Limit)
        hasNext == params.Page < totalPages
        hasPrev == params.Page > 1
    IN  [Page |-> params.Page, Limit |-> params.Limit, Total |-> total,
         TotalPages |-> totalPages, HasNext |-> hasNext, HasPrev |-> hasPrev,
         NextPage |-> IF hasNext THEN <<params.Page + 1>> ELSE <<>>,
         PrevPage |-> IF hasPrev THEN <<params.Page - 1>> ELSE <<>>]

WithPagination(r, params, total) ==
    Same([r EXCEPT !.PaginationData = <<CreatePaginationMeta(params, total)>>])

\* A faulty range check: 100 is rejected
validateStatusCode_OffByOne(code) ==
    IF code <= 100 \/ code > 599 THEN <<StatusCodeError(code)>> ELSE <<>>

\* <<>> is the nil error
validateStatusCode(code) ==
    IF code < 100 \/ code > 599 THEN <<StatusCodeError(code)>> ELSE <<>>

WithCode(r, code) ==
    LET err == validateStatusCode(code)
    IN  IF err # <<>>
        THEN Fresh(r, appendTraceInternal(
                        InternalServerError(<<"Invalid status code set">>),
                        "error",
                        <<[kind |-> "error", text |-> err[1]]>>).recv)
        ELSE Same([r EXCEPT !.Code = code])

\* pagination.go: the entry AddValidationErrors formats for one ValidationTrace;
\* Value is <<>> (nil) or <<v>>, v being what %v prints
traceMsg(err) ==
    IF err.Value # <<>>
    THEN "(" \o err.Field \o ") " \o err.Message \o ": " \o err.Value[1]
    ELSE "(" \o err.Field \o ") " \o err.Message

RECURSIVE validationLoop(_, _)
\* The for loop of AddValidationErrors over the errors not yet processed
validationLoop(r, errs) ==
    IF errs = <<>> THEN r
    ELSE validationLoop(
             appendTraceInternal(r, "validation",
                 <<[kind |-> "string", text |-> traceMsg(Head(errs))]>>).recv,
             Tail(errs))

AddValidationErrors(errs) ==
    IF Len(errs) = 0
    THEN StatusConstructor("BadRequest", <<"Validation failed">>)
    ELSE validationLoop(StatusConstructor("BadRequest", <<"Validation failed">>), errs)

-----------------------------------------------------------------------------
(* Size estimator and guard (helpers.go) *)

\* encoding/json refuses some payloads (a channel, a func): Encode returns an error
Encodable(r) == r.Data.kind # "chan"

jsonString(s) == Len(s) + 2

jsonField(key, valueBytes) == Len(key) + 3 + valueBytes

RECURSIVE sumSeq(_)
sumSeq(ns) == IF ns = <<>> THEN 0 ELSE Head(ns) + sumSeq(Tail(ns))

\* A JSON array or object of members of the given sizes: brackets and commas
jsonJoin(ns) == 2 + sumSeq(ns) + (IF Len(ns) > 0 THEN Len(ns) - 1 ELSE 0)

jsonBool(b) == IF b THEN 4 ELSE 5

jsonPagination(p) ==
    jsonJoin(
        <<jsonField("page", Len(Itoa(p.Page))),
          jsonField("limit", Len(Itoa(p.Limit))),
          jsonField("total", Len(Itoa(p.Total))),
          jsonField("total_pages", Len(Itoa(p.TotalPages))),
          jsonField("has_next", jsonBool(p.HasNext)),
          jsonField("has_prev", jsonBool(p.HasPrev))>>
        \o (IF p.NextPage # <<>>
            THEN <<jsonField("next_page", Len(Itoa(p.NextPage[1])))>> ELSE <<>>)
        \o (IF p.PrevPage # <<>>
            THEN <<jsonField("prev_page", Len(Itoa(p.PrevPage[1])))>> ELSE <<>>))

\* The bytes json.Encoder writes for r: the tagged fields, omitempty applied, and
\* the encoder's trailing newline
encodedSize(r) ==
    1 + jsonJoin(
        (IF r.Module # "" THEN <<jsonField("module", jsonString(r.Module))>> ELSE <<>>)
        \o (IF r.Message # "" THEN <<jsonField("message", jsonString(r.Message))>> ELSE <<>>)
        \o (IF r.Data.kind # "nil" THEN <<jsonField("data", r.Data.bytes)>> ELSE <<>>)
        \o (IF Len(r.Trace) > 0
            THEN <<jsonField("trace",
                       jsonJoin([i \in 1..Len(r.Trace) |-> jsonString(r.Trace[i])]))>>
            ELSE <<>>)
        \o <<jsonField("timestamp", jsonString(r.Timestamp))>>
        \o (IF r.PaginationData # <<>>
            THEN <<jsonField("pagination", jsonPagination(r.PaginationData[1]))>>
            ELSE <<>>)
        \o (IF r.Code # 0 THEN <<jsonField("code", Len(Itoa(r.Code)))>> ELSE <<>>))

estimateSize(r) ==
    IF ~Encodable(r)
    THEN [size |-> 0, err |-> <<"json: unsupported type">>]
    ELSE [size |-> encodedSize(r), err |-> <<>>]

\* A faulty guard: a response whose size equals the limit is refused
validateResponseSize_AtLimit(r) ==
    LET config == getResponseConfig(r)
        est == estimateSize(r)
    IN  IF ~config.EnableSizeValidation THEN <<>>
        ELSE IF est.err # <<>>
        THEN <<[kind |-> "EncodingError", Size |-> 0, Max |-> 0]>>
        ELSE IF est.size >= config.ResponseSizeLimit
        THEN <<[kind |-> "SizeLimitError", Size |-> est.size,
                Max |-> config.ResponseSizeLimit]>>
        ELSE <<>>

\* <<>> is the nil error
validateResponseSize(r) ==
    LET config == getResponseConfig(r)
        est == estimateSize(r)
    IN  IF ~config.EnableSizeValidation THEN <<>>
        ELSE IF est.err # <<>>
        THEN <<[kind |-> "EncodingError", Size |-> 0, Max |-> 0]>>
        ELSE IF est.size > config.ResponseSizeLimit
        THEN <<[kind |-> "SizeLimitError", Size |-> est.size,
                Max |-> config.ResponseSizeLimit]>>
        ELSE <<>>

\* A faulty encoding: the trace is left out of the body
BodyOf_OmitsTrace(r) ==
    [module |-> r.Module, message |-> r.Message, data |-> r.Data, trace |-> <<>>,
     timestamp |-> r.Timestamp, pagination |-> r.PaginationData, code |-> r.Code]

\* What Encode(r) puts on the wire: the fields tagged for JSON
BodyOf(r) ==
    [module |-> r.Module, message |-> r.Message, data |-> r.Data, trace |-> r.Trace,
     timestamp |-> r.Timestamp, pagination |-> r.PaginationData, code |-> r.Code]

-----------------------------------------------------------------------------
(* Interceptor registry (interceptors.go) *)

\* A faulty limit check: the registry is full only once it exceeds the limit
AddInterceptor_OffByOne(interceptor) ==
    LET config == getConfig
    IN  IF Len(interceptors) > config.MaxInterceptorAmount
        THEN [registry |-> interceptors,
              err |-> <<[Current |-> Len(interceptors),
                         Max |-> config.MaxInterceptorAmount]>>]
        ELSE [registry |-> Append(interceptors, interceptor), err |-> <<>>]

\* <<>> is the nil error, <<e>> an *InterceptorLimitError
AddInterceptor(interceptor) ==
    LET config == getConfig
    IN  IF Len(interceptors) >= config.MaxInterceptorAmount
        THEN [registry |-> interceptors,
              err |-> <<[Current |-> Len(interceptors),
                         Max |-> config.MaxInterceptorAmount]>>]
        ELSE [registry |-> Append(interceptors, interceptor), err |-> <<>>]

-----------------------------------------------------------------------------
(* Pointers: applying a method's result to the heap *)

\* The heap after a call on the object ref, and the pointer the call returns
ApplyCall(hp, ref, res) ==
    [heap |-> IF res.fresh = <<>>
              THEN [hp EXCEPT ![ref] = res.recv]
              ELSE Append([hp EXCEPT ![ref] = res.recv], res.fresh[1]),
     ret  |-> IF res.fresh = <<>> THEN ref ELSE Len(hp) + 1]

-----------------------------------------------------------------------------
(* Delivery pipeline (interceptors.go: Send, SendWithContext, sendInternal) *)

\* A faulty guard path: the content type is reset but the code is left as it was
SendWithContext_KeepsCode(hp, ref) ==
    LET err == validateResponseSize(hp[ref])
    IN  IF err # <<>>
        THEN LET a == ApplyCall(hp, ref,
                          WithContentType(hp[ref], getConfig.DefaultContentType))
             IN  [heap |-> a.heap, out |-> a.ret, err |-> err]
        ELSE [heap |-> hp, out |-> ref, err |-> err]

\* SendWithContext up to its call of sendInternal: the heap afterwards, the
\* pointer sendInternal is called on, and the guard's error
SendWithContext(hp, ref) ==
    LET err == validateResponseSize(hp[ref])
    IN  IF err # <<>>
        THEN LET a1 == ApplyCall(hp, ref,
                           WithCode(hp[ref], HTTPStatus.InternalServerError))
                 a2 == ApplyCall(a1.heap, a1.ret,
                           WithContentType(a1.heap[a1.ret], getConfig.DefaultContentType))
             IN  [heap |-> a2.heap, out |-> a2.ret, err |-> err]
        ELSE [heap |-> hp, out |-> ref, err |-> err]

\* A faulty choice of capability: only a nil context counts as no context
interceptKind_NilOnly(ctx) ==
    IF ctx # "nil" THEN "Intercept" ELSE "InterceptSimple"

\* sendInternal: which capability of an interceptor is called
interceptKind(ctx) ==
    IF ctx # "nil" /\ ctx # "background" THEN "Intercept" ELSE "InterceptSimple"

\* A faulty failure path: the diagnostic is appended in caller-facing mode
encodeFailure_CallerMode(r, inner) ==
    appendTrace(r, "internal error", FALSE,
        <<[kind |-> "string", text |-> EncodingError(inner)]>>)

\* sendInternal: the trace entry recorded when Encode fails
encodeFailure(r, inner) ==
    appendTraceInternal(r, "internal error",
        <<[kind |-> "string", text |-> EncodingError(inner)]>>)

-----------------------------------------------------------------------------
(* Inputs *)

MsgArgs == {<<>>, <<"missing">>}

SmallData == [kind |-> "json", bytes |-> 8]
BigData == [kind |-> "json", bytes |-> 400]
ChanData == [kind |-> "chan", bytes |-> 0]
DataInputs == {SmallData, BigData, ChanData}

\* A tight configuration with size validation on
SmallConfig ==
    [MaxTraceSize         |-> 2,
     ResponseSizeLimit    |-> 150,
     MaxInterceptorAmount |-> 1,
     DefaultContentType   |-> "text/plain",
     EnableSizeValidation |-> TRUE]

\* A partial configuration with size validation off
LooseConfig ==
    [MaxTraceSize         |-> 1,
     ResponseSizeLimit    |-> 0,
     MaxInterceptorAmount |-> -1,
     DefaultContentType   |-> "",
     EnableSizeValidation |-> FALSE]

ConfigInputs == {SmallConfig, LooseConfig, zeroConfig}

ContentTypes == {"application/xml"}

CodeInputs == {-1, 99, 100, 404, 599, 600, 700}

Interceptors == {"i1", "i2"}

Contexts == {"nil", "background", "request"}

TextEntries ==
    {[kind |-> "string", text |-> "lookup: id=42"],
     [kind |-> "error", text |-> "boom"]}

-----------------------------------------------------------------------------
(* Initial state: the package after init(), no handler running *)

noCall == [op |-> "", args |-> <<>>, recv |-> 0, ret |-> 0, pre |-> zeroResponse]

\* The zero value of sync.RWMutex: no writer holds it, no reader holds it, no
\* goroutine is blocked in Lock
unlocked == [writer |-> "", readers |-> {}, pending |-> {}]

\* No goroutine is inside SetConfig or GetConfig
noGoroutines == <<>>

noDelivery ==
    [recv |-> 0, out |-> 0, ctx |-> "nil", guard |-> <<>>,
     pre |-> zeroResponse, snap |-> <<>>, i |-> 1]

Init ==
    /\ globalConfig = defaultConfig
    /\ interceptors = <<>>
    /\ heap = <<>>
    /\ h = 0
    /\ last = noCall
    /\ ops = 0
    /\ pc = "build"
    /\ d = noDelivery
    /\ calls = <<>>
    /\ dest = <<>>
    /\ fed = <<>>
    /\ mu = unlocked
    /\ interceptorsMu = unlocked
    /\ gor = noGoroutines

-----------------------------------------------------------------------------
(* Process-wide operations *)

SetConfig(config) == normalize(config)

DoSetConfig ==
    /\ pc = "build" /\ ops < MaxOps
    /\ \E c \in ConfigInputs : globalConfig' = SetConfig(c)
    /\ ops' = ops + 1
    /\ UNCHANGED <<interceptors, heap, h, last, pc, d, calls, dest, fed, mu, gor,
                   interceptorsMu>>

DoAddInterceptor ==
    /\ pc = "build" /\ ops < MaxOps
    /\ \E i \in Interceptors : interceptors' = AddInterceptor(i).registry
    /\ ops' = ops + 1
    /\ UNCHANGED <<globalConfig, heap, h, last, pc, d, calls, dest, fed, mu, gor,
                   interceptorsMu>>

RemoveAllInterceptors ==
    /\ pc = "build" /\ ops < MaxOps
    /\ interceptors' = <<>>
    /\ ops' = ops + 1
    /\ UNCHANGED <<globalConfig, heap, h, last, pc, d, calls, dest, fed, mu, gor,
                   interceptorsMu>>

-----------------------------------------------------------------------------
(* The handler: a constructor, then a chain of builder calls *)

\* A constructor call: the new Response is allocated and the chain starts on it
New(op, args, r) ==
    /\ pc = "build" /\ h = 0 /\ ops < MaxOps
    /\ heap' = Append(heap, r)
    /\ h' = Len(heap) + 1
    /\ last' = [op |-> op, args |-> args, recv |-> 0, ret |-> Len(heap) + 1,
                pre |-> zeroResponse]
    /\ ops' = ops + 1
    /\ UNCHANGED <<globalConfig, interceptors, pc, d, calls, dest, fed, mu, gor, interceptorsMu>>

\* A method call on the Response the chain holds; the chain goes on with the
\* pointer the method returns
Call(op, args, res) ==
    /\ pc = "build" /\ h # 0 /\ ops < MaxOps
    /\ LET a == ApplyCall(heap, h, res)
       IN  /\ heap' = a.heap
           /\ h' = a.ret
           /\ last' = [op |-> op, args |-> args, recv |-> h, ret |-> a.ret,
                       pre |-> heap[h]]
    /\ ops' = ops + 1
    /\ UNCHANGED <<globalConfig, interceptors, pc, d, calls, dest, fed, mu, gor, interceptorsMu>>

DoStatusConstructor ==
    \E name \in {"OK", "NotFound"}, msg \in MsgArgs :
        New(name, msg, StatusConstructor(name, msg))

DoBase ==
    \E cfg \in {<<>>, <<<<>>>>} \cup {<<<<c>>>> : c \in ConfigInputs} :
        New("Base", cfg, Base(cfg))

DoStatusSetter ==
    \E name \in {"Created", "BadRequest"}, msg \in MsgArgs :
        Call(name, msg, StatusSetter(heap[h], name, msg))

DoWithCode ==
    \E code \in CodeInputs : Call("WithCode", <<code>>, WithCode(heap[h], code))

DoWithMsg == Call("WithMsg", <<"hello">>, WithMsg(heap[h], "hello"))

DoWithData ==
    \E data \in DataInputs : Call("WithData", <<data>>, WithData(heap[h], data))

DoWithContentType ==
    \E ctype \in ContentTypes :
        Call("WithContentType", <<ctype>>, WithContentType(heap[h], ctype))

DoWithModule == Call("WithModule", <<"users">>, WithModule(heap[h], "users"))

DoWithPagination ==
    \E params \in {[Page |-> 2, Limit |-> 10]}, total \in {35} :
        Call("WithPagination", <<params, total>>, WithPagination(heap[h], params, total))

DoWithTracePrefix ==
    Call("WithTracePrefix", <<"svc">>, WithTracePrefix(heap[h], "svc"))

DoWithConfig ==
    \E c \in ConfigInputs : Call("WithConfig", <<c>>, WithConfig(heap[h], c))

DoAddTrace ==
    \E t \in TextEntries : Call("AddTrace", <<t>>, AddTrace(heap[h], <<t>>))

DoAddPrefixedTrace ==
    \E t \in TextEntries :
        Call("AddPrefixedTrace", <<"db", t>>, AddPrefixedTrace(heap[h], "db", <<t>>))

-----------------------------------------------------------------------------
(* The delivery, step by step *)

\* Send / SendWithContext: the size guard, the substitution, the call of sendInternal
StartDelivery(ctx) ==
    /\ pc = "build" /\ h # 0
    /\ LET s == SendWithContext(heap, h)
       IN  /\ heap' = s.heap
           /\ d' = [recv |-> h, out |-> s.out, ctx |-> ctx, guard |-> s.err,
                    pre |-> heap[h], snap |-> <<>>, i |-> 1]
    /\ pc' = "snapshot"
    /\ UNCHANGED <<globalConfig, interceptors, h, last, ops, calls, dest, fed, mu, gor,
                   interceptorsMu>>

DoSend == StartDelivery("background")

DoSendWithContext == \E ctx \in Contexts : StartDelivery(ctx)

\* sendInternal: the copy of the registry under the read lock
Snapshot ==
    /\ pc = "snapshot"
    /\ d' = [d EXCEPT !.snap = interceptors, !.i = 1]
    /\ pc' = "notify"
    /\ UNCHANGED <<globalConfig, interceptors, heap, h, last, ops, calls, dest, fed, mu, gor,
                   interceptorsMu>>

\* sendInternal: one iteration of the loop over the snapshot
Notify ==
    /\ pc = "notify" /\ d.i <= Len(d.snap)
    /\ calls' = Append(calls,
            [interceptor |-> d.snap[d.i], kind |-> interceptKind(d.ctx),
             response |-> d.out, seen |-> heap[d.out], statusCode |-> heap[d.out].Code])
    /\ d' = [d EXCEPT !.i = d.i + 1]
    /\ UNCHANGED <<globalConfig, interceptors, heap, h, last, ops, pc, dest, fed, mu, gor,
                   interceptorsMu>>

\* A faulty sendInternal: the header is set without waiting for the loop over
\* the interceptors to end
SetHeader_BeforeLoopEnds ==
    /\ pc = "notify"
    /\ dest' = Append(dest, [op |-> "Header.Set", key |-> "Content-Type",
                             value |-> heap[d.out].ContentType])
    /\ pc' = "status"
    /\ UNCHANGED <<globalConfig, interceptors, heap, h, last, ops, d, calls, fed, mu, gor,
                   interceptorsMu>>

\* sendInternal: w.Header().Set("Content-Type", r.ContentType)
SetHeader ==
    /\ pc = "notify" /\ d.i > Len(d.snap)
    /\ dest' = Append(dest, [op |-> "Header.Set", key |-> "Content-Type",
                             value |-> heap[d.out].ContentType])
    /\ pc' = "status"
    /\ UNCHANGED <<globalConfig, interceptors, heap, h, last, ops, d, calls, fed, mu, gor,
                   interceptorsMu>>

\* sendInternal: w.WriteHeader(r.Code)
WriteHeader ==
    /\ pc = "status"
    /\ dest' = Append(dest, [op |-> "WriteHeader", code |-> heap[d.out].Code])
    /\ pc' = "body"
    /\ UNCHANGED <<globalConfig, interceptors, heap, h, last, ops, d, calls, fed, mu, gor,
                   interceptorsMu>>

\* sendInternal: Encode(r) succeeds and the body is written
EncodeOk ==
    /\ pc = "body" /\ Encodable(heap[d.out])
    /\ dest' = Append(dest, [op |-> "Write", ok |-> TRUE, body |-> BodyOf(heap[d.out])])
    /\ pc' = "delivered"
    /\ UNCHANGED <<globalConfig, interceptors, heap, h, last, ops, d, calls, fed, mu, gor,
                   interceptorsMu>>

\* sendInternal: Encode(r) fails on the payload: nothing is written
EncodeUnsupported ==
    /\ pc = "body" /\ ~Encodable(heap[d.out])
    /\ heap' = [heap EXCEPT ![d.out] =
                    encodeFailure(heap[d.out], "json: unsupported type").recv]
    /\ pc' = "delivered-with-encode-error"
    /\ UNCHANGED <<globalConfig, interceptors, h, last, ops, d, calls, dest, fed, mu, gor,
                   interceptorsMu>>

\* A faulty failure path: after the failed write the status is written again, as 500
EncodeWriteFails_WritesStatusAgain ==
    /\ pc = "body" /\ Encodable(heap[d.out])
    /\ dest' = dest \o <<[op |-> "Write", ok |-> FALSE, body |-> BodyOf(heap[d.out])],
                         [op |-> "WriteHeader", code |-> HTTPStatus.InternalServerError]>>
    /\ heap' = [heap EXCEPT ![d.out] = encodeFailure(heap[d.out], "write failed").recv]
    /\ pc' = "delivered-with-encode-error"
    /\ UNCHANGED <<globalConfig, interceptors, h, last, ops, d, calls, fed, mu, gor,
                   interceptorsMu>>

\* sendInternal: Encode(r) fails because the writer's Write fails (the writer's choice)
EncodeWriteFails ==
    /\ pc = "body" /\ Encodable(heap[d.out])
    /\ dest' = Append(dest, [op |-> "Write", ok |-> FALSE, body |-> BodyOf(heap[d.out])])
    /\ heap' = [heap EXCEPT ![d.out] = encodeFailure(heap[d.out], "write failed").recv]
    /\ pc' = "delivered-with-encode-error"
    /\ UNCHANGED <<globalConfig, interceptors, h, last, ops, d, calls, fed, mu, gor,
                   interceptorsMu>>

Deliver ==
    \/ Snapshot
    \/ Notify
    \/ SetHeader
    \/ WriteHeader
    \/ EncodeOk
    \/ EncodeUnsupported
    \/ EncodeWriteFails

-----------------------------------------------------------------------------
(* Specifications *)

\* A handler's life: start-up calls, a constructor, builder calls, one delivery
Next ==
    \/ DoSetConfig
    \/ DoAddInterceptor
    \/ DoStatusConstructor
    \/ DoWithData
    \/ DoWithContentType
    \/ DoWithConfig
    \/ DoAddTrace
    \/ DoSend
    \/ DoSendWithContext
    \/ Deliver

Spec == Init /\ [][Next]_vars

\* The builder: every constructor and every builder method, no delivery
NextBuild ==
    \/ DoSetConfig
    \/ DoStatusConstructor
    \/ DoBase
    \/ DoStatusSetter
    \/ DoWithCode
    \/ DoWithMsg
    \/ DoWithData
    \/ DoWithContentType
    \/ DoWithModule
    \/ DoWithPagination
    \/ DoWithTracePrefix
    \/ DoWithConfig
    \/ DoAddTrace
    \/ DoAddPrefixedTrace

SpecBuild == Init /\ [][NextBuild]_vars

-----------------------------------------------------------------------------
(* The trace harness: one response of a fixed effective capacity, fed by the
   caller-facing methods; fed remembers every entry as the caller supplied it *)

TraceEntries == TextEntries \cup {[kind |-> "other", text |-> ""]}

\* The argument lists of one variadic call
TraceArgs == UNION {[1..n -> TraceEntries] : n \in 1..MaxCall}

\* A configuration whose trace capacity is n
capConfig(n) == [SmallConfig EXCEPT !.MaxTraceSize = n]

\* The states after SetConfig(capConfig(n)) and NotFound(), or after NotFound()
\* and WithConfig(capConfig(n)); then WithTracePrefix(tp) or no prefix at all
InitTrace ==
    /\ \E n \in 1..MaxCap, mode \in {"global", "override"}, tp \in {"", "svc"} :
        /\ globalConfig = IF mode = "global" THEN SetConfig(capConfig(n)) ELSE defaultConfig
        /\ LET r0 == StatusConstructor("NotFound", <<>>)
               r1 == IF mode = "override" THEN WithConfig(r0, capConfig(n)).recv ELSE r0
           IN  heap = <<WithTracePrefix(r1, tp).recv>>
    /\ interceptors = <<>>
    /\ h = 1
    /\ last = noCall
    /\ ops = 0
    /\ pc = "build"
    /\ d = noDelivery
    /\ calls = <<>>
    /\ dest = <<>>
    /\ fed = <<>>
    /\ mu = unlocked
    /\ interceptorsMu = unlocked
    /\ gor = noGoroutines

\* What fed remembers of a call: the method, its prefix argument, each entry
fedOf(api, prefix, trace) ==
    [i \in 1..Len(trace) |-> [api |-> api, prefix |-> prefix, entry |-> trace[i]]]

Feed(api, prefix, trace, res) ==
    /\ Len(fed) + Len(trace) <= MaxFed
    /\ LET a == ApplyCall(heap, h, res)
       IN  /\ heap' = a.heap
           /\ h' = a.ret
    /\ fed' = fed \o fedOf(api, prefix, trace)
    /\ UNCHANGED <<globalConfig, interceptors, last, ops, pc, d, calls, dest, mu, gor,
                   interceptorsMu>>

FeedAddTrace ==
    \E trace \in TraceArgs : Feed("AddTrace", "", trace, AddTrace(heap[h], trace))

FeedAddPrefixedTrace ==
    \E prefix \in {"", "db"}, trace \in TraceArgs :
        Feed("AddPrefixedTrace", prefix, trace, AddPrefixedTrace(heap[h], prefix, trace))

NextTrace ==
    \/ FeedAddTrace
    \/ FeedAddPrefixedTrace

SpecTrace == InitTrace /\ [][NextTrace]_vars

-----------------------------------------------------------------------------
(* The append harness: one response of a fixed effective capacity, 0 included,
   fed in both modes: by the caller-facing methods and by appendTraceInternal,
   the entry point of the library's own diagnostics *)

ValidationInputs ==
    {[Field |-> "email", Message |-> "required", Value |-> <<>>],
     [Field |-> "age", Message |-> "too small", Value |-> <<"-1">>]}

\* The argument lists of one AddValidationErrors call
ValidationArgs == UNION {[1..n -> ValidationInputs] : n \in 0..MaxApp}

\* The states after SetConfig(capConfig(n)) and NotFound(), or after
\* Base(&capConfig(n)), whose override is stored as given: n = 0 included
InitAppend ==
    /\ \E n \in 0..MaxCap, mode \in {"global", "override"} :
        /\ n = 0 => mode = "override"
        /\ globalConfig = IF mode = "global" THEN SetConfig(capConfig(n)) ELSE defaultConfig
        /\ heap = <<IF mode = "override"
                    THEN Base(<<<<capConfig(n)>>>>)
                    ELSE StatusConstructor("NotFound", <<>>)>>
    /\ interceptors = <<>>
    /\ h = 1
    /\ last = noCall
    /\ ops = 0
    /\ pc = "build"
    /\ d = noDelivery
    /\ calls = <<>>
    /\ dest = <<>>
    /\ fed = <<>>
    /\ mu = unlocked
    /\ interceptorsMu = unlocked
    /\ gor = noGoroutines

\* A call that appends to the response the handler holds
App(api, prefix, trace, res) ==
    /\ Len(fed) + Len(trace) <= MaxApp
    /\ LET a == ApplyCall(heap, h, res)
       IN  /\ heap' = a.heap
           /\ h' = a.ret
    /\ fed' = fed \o fedOf(api, prefix, trace)
    /\ UNCHANGED <<globalConfig, interceptors, last, ops, pc, d, calls, dest, mu, gor,
                   interceptorsMu>>

AppAddTrace ==
    \E trace \in TraceArgs : App("AddTrace", "", trace, AddTrace(heap[h], trace))

AppAddPrefixedTrace ==
    \E trace \in TraceArgs :
        App("AddPrefixedTrace", "db", trace, AddPrefixedTrace(heap[h], "db", trace))

\* The library appends a diagnostic of its own to the response
AppInternal ==
    \E trace \in TraceArgs :
        App("appendTraceInternal", "internal error", trace,
            appendTraceInternal(heap[h], "internal error", trace))

\* The handler starts over with the response AddValidationErrors builds
AppAddValidationErrors ==
    /\ fed = <<>> /\ Len(heap) = 1
    /\ \E errs \in ValidationArgs :
        /\ heap' = Append(heap, AddValidationErrors(errs))
        /\ fed' = fedOf("appendTraceInternal", "validation",
                        [i \in 1..Len(errs) |->
                            [kind |-> "string", text |-> traceMsg(errs[i])]])
    /\ h' = Len(heap) + 1
    /\ UNCHANGED <<globalConfig, interceptors, last, ops, pc, d, calls, dest, mu, gor,
                   interceptorsMu>>

NextAppend ==
    \/ AppAddTrace
    \/ AppAddPrefixedTrace
    \/ AppInternal
    \/ AppAddValidationErrors

SpecAppend == InitAppend /\ [][NextAppend]_vars

-----------------------------------------------------------------------------
(* The configuration store on its own: SetConfig with every kind of argument,
   and GetConfig *)

\* Config values with each numeric field negative, zero or positive, the
\* content type empty or not, size validation on or off
ConfigDomain ==
    [MaxTraceSize         : {-1, 0, 3},
     ResponseSizeLimit    : {-5, 0, 150},
     MaxInterceptorAmount : {-1, 0, 2},
     DefaultContentType   : {"", "text/plain"},
     EnableSizeValidation : BOOLEAN]

StoreSetConfig ==
    /\ ops < MaxOps
    /\ \E c \in ConfigDomain :
        /\ globalConfig' = SetConfig(c)
        /\ last' = [op |-> "SetConfig", args |-> <<c>>, recv |-> 0, ret |-> 0,
                    pre |-> zeroResponse]
    /\ ops' = ops + 1
    /\ UNCHANGED <<interceptors, heap, h, pc, d, calls, dest, fed, mu, gor, interceptorsMu>>

GetConfig == globalConfig

StoreGetConfig ==
    /\ ops < MaxOps
    /\ last' = [op |-> "GetConfig", args |-> <<>>, recv |-> 0, ret |-> GetConfig,
                pre |-> zeroResponse]
    /\ ops' = ops + 1
    /\ UNCHANGED <<globalConfig, interceptors, heap, h, pc, d, calls, dest, fed, mu, gor,
                   interceptorsMu>>

NextStore ==
    \/ StoreSetConfig
    \/ StoreGetConfig

SpecStore == Init /\ [][NextStore]_vars

-----------------------------------------------------------------------------
(* Configuration resolution: responses built by Base with every kind of
   override, under a process-wide configuration that changes *)

ResolveBase ==
    \E cfg \in {<<>>, <<<<>>>>} \cup {<<<<c>>>> : c \in ConfigDomain} :
        New("Base", cfg, Base(cfg))

NextResolve ==
    \/ DoSetConfig
    \/ DoStatusConstructor
    \/ ResolveBase
    \/ DoWithConfig

SpecResolve == Init /\ [][NextResolve]_vars

-----------------------------------------------------------------------------
(* The configuration store under concurrency: goroutines calling SetConfig and
   goroutines reading through GetConfig / getConfig, one step per lock
   operation and per field of the struct copied *)

Writers == {"w1", "w2"}
Readers == {"r1", "r2"}

\* type Config, field by field: a struct is copied one field at a time
ConfigFields ==
    <<"MaxTraceSize", "ResponseSizeLimit", "MaxInterceptorAmount",
      "DefaultContentType", "EnableSizeValidation">>

\* sync.RWMutex.RLock everywhere: a reader gets in whenever no writer holds
\* the mutex
CanRLock_Always(m) == TRUE

\* RLock(): blocks while a writer holds the mutex or is blocked in Lock
CanRLock(m) == m.writer = "" /\ m.pending = {}

\* Lock(): blocks while a writer or a reader holds the mutex
CanLock(m) == m.writer = "" /\ m.readers = {}

\* A goroutine outside any call: config is its local (the parameter of
\* SetConfig, the value GetConfig is returning), i the field being copied, n
\* its calls so far, args what it passed to SetConfig, got what GetConfig
\* returned to it
idle == [pc |-> "idle", config |-> zeroConfig, i |-> 1, n |-> 0, args |-> {}, got |-> {}]

InitConc ==
    /\ globalConfig = defaultConfig
    /\ interceptors = <<>>
    /\ heap = <<>>
    /\ h = 0
    /\ last = noCall
    /\ ops = 0
    /\ pc = "build"
    /\ d = noDelivery
    /\ calls = <<>>
    /\ dest = <<>>
    /\ fed = <<>>
    /\ mu = unlocked
    /\ interceptorsMu = unlocked
    /\ gor = [g \in Writers \cup Readers |-> idle]

\* The arguments of the concurrent SetConfig calls: a complete configuration
\* and one the validation block has to fill in
ConcInputs == {SmallConfig, LooseConfig}

\* A goroutine calls SetConfig(c) and reaches globalConfigMu.Lock()
SetConfigCall(g) ==
    /\ gor[g].pc = "idle" /\ gor[g].n < MaxRounds
    /\ \E c \in ConcInputs :
        gor' = [gor EXCEPT ![g] = [@ EXCEPT !.pc = "Lock", !.config = c,
                                            !.n = @ + 1, !.args = @ \cup {c}]]
    /\ mu' = [mu EXCEPT !.pending = @ \cup {g}]
    /\ UNCHANGED <<globalConfig, interceptors, heap, h, last, ops, pc, d, calls, dest,
                   fed, interceptorsMu>>

\* SetConfig: globalConfigMu.Lock()
SetConfigLock(g) ==
    /\ gor[g].pc = "Lock" /\ CanLock(mu)
    /\ mu' = [mu EXCEPT !.writer = g, !.pending = @ \ {g}]
    /\ gor' = [gor EXCEPT ![g].pc = "validate"]
    /\ UNCHANGED <<globalConfig, interceptors, heap, h, last, ops, pc, d, calls, dest, fed,
                   interceptorsMu>>

\* SetConfig: the validation block, on the goroutine's own copy of the argument
SetConfigValidate(g) ==
    /\ gor[g].pc = "validate"
    /\ gor' = [gor EXCEPT ![g] = [@ EXCEPT !.pc = "assign", !.i = 1,
                                           !.config = normalize(@)]]
    /\ UNCHANGED <<globalConfig, interceptors, heap, h, last, ops, pc, d, calls, dest,
                   fed, mu, interceptorsMu>>

\* SetConfig: globalConfig = config, one field of the struct
SetConfigAssign(g) ==
    /\ gor[g].pc = "assign"
    /\ LET f == ConfigFields[gor[g].i]
       IN  globalConfig' = [globalConfig EXCEPT ![f] = gor[g].config[f]]
    /\ gor' = [gor EXCEPT ![g] =
                  IF @.i = Len(ConfigFields)
                  THEN [@ EXCEPT !.pc = "Unlock"]
                  ELSE [@ EXCEPT !.i = @ + 1]]
    /\ UNCHANGED <<interceptors, heap, h, last, ops, pc, d, calls, dest, fed, mu,
                   interceptorsMu>>

\* SetConfig: the deferred globalConfigMu.Unlock()
SetConfigUnlock(g) ==
    /\ gor[g].pc = "Unlock"
    /\ mu' = [mu EXCEPT !.writer = ""]
    /\ gor' = [gor EXCEPT ![g].pc = "idle"]
    /\ UNCHANGED <<globalConfig, interceptors, heap, h, last, ops, pc, d, calls, dest, fed,
                   interceptorsMu>>

\* A goroutine calls GetConfig, or getConfig on behalf of a constructor, an
\* append or a delivery
GetConfigCall(g) ==
    /\ gor[g].pc = "idle" /\ gor[g].n < MaxRounds
    /\ gor' = [gor EXCEPT ![g] = [@ EXCEPT !.pc = "RLock", !.n = @ + 1]]
    /\ UNCHANGED <<globalConfig, interceptors, heap, h, last, ops, pc, d, calls, dest,
                   fed, mu, interceptorsMu>>

\* GetConfig: globalConfigMu.RLock()
GetConfigRLock(g) ==
    /\ gor[g].pc = "RLock" /\ CanRLock(mu)
    /\ mu' = [mu EXCEPT !.readers = @ \cup {g}]
    /\ gor' = [gor EXCEPT ![g] = [@ EXCEPT !.pc = "return", !.i = 1,
                                           !.config = zeroConfig]]
    /\ UNCHANGED <<globalConfig, interceptors, heap, h, last, ops, pc, d, calls, dest, fed,
                   interceptorsMu>>

\* GetConfig: return globalConfig, one field of the struct
GetConfigReturn(g) ==
    /\ gor[g].pc = "return"
    /\ LET f == ConfigFields[gor[g].i]
       IN  gor' = [gor EXCEPT ![g] =
                      IF @.i = Len(ConfigFields)
                      THEN [@ EXCEPT !.pc = "RUnlock", !.config[f] = globalConfig[f]]
                      ELSE [@ EXCEPT !.i = @ + 1, !.config[f] = globalConfig[f]]]
    /\ UNCHANGED <<globalConfig, interceptors, heap, h, last, ops, pc, d, calls, dest,
                   fed, mu, interceptorsMu>>

\* GetConfig: the deferred globalConfigMu.RUnlock(); the caller has its value
GetConfigRUnlock(g) ==
    /\ gor[g].pc = "RUnlock"
    /\ mu' = [mu EXCEPT !.readers = @ \ {g}]
    /\ gor' = [gor EXCEPT ![g] = [@ EXCEPT !.pc = "idle", !.got = @ \cup {gor[g].config}]]
    /\ UNCHANGED <<globalConfig, interceptors, heap, h, last, ops, pc, d, calls, dest, fed,
                   interceptorsMu>>

NextConc ==
    \/ \E g \in Writers : SetConfigCall(g)
    \/ \E g \in Writers : SetConfigLock(g)
    \/ \E g \in Writers : SetConfigValidate(g)
    \/ \E g \in Writers : SetConfigAssign(g)
    \/ \E g \in Writers : SetConfigUnlock(g)
    \/ \E g \in Readers : GetConfigCall(g)
    \/ \E g \in Readers : GetConfigRLock(g)
    \/ \E g \in Readers : GetConfigReturn(g)
    \/ \E g \in Readers : GetConfigRUnlock(g)

SpecConc == InitConc /\ [][NextConc]_vars

-----------------------------------------------------------------------------
(* The registry at start-up: AddInterceptor, RemoveAllInterceptors and SetConfig
   in any order *)

NextRegistry ==
    \/ DoSetConfig
    \/ DoAddInterceptor
    \/ RemoveAllInterceptors

SpecRegistry == Init /\ [][NextRegistry]_vars

-----------------------------------------------------------------------------
(* The registry under a fixed limit: AddInterceptor calls on a registry that
   starts empty; fed remembers each call and what it returned *)

LimitInterceptors == {"i1", "i2", "i3"}

\* A configuration whose MaxInterceptorAmount is m
limitConfig(m) == [SmallConfig EXCEPT !.MaxInterceptorAmount = m]

\* The states after SetConfig(limitConfig(m))
InitLimit ==
    /\ \E m \in 1..MaxLimit : globalConfig = SetConfig(limitConfig(m))
    /\ interceptors = <<>>
    /\ heap = <<>>
    /\ h = 0
    /\ last = noCall
    /\ ops = 0
    /\ pc = "build"
    /\ d = noDelivery
    /\ calls = <<>>
    /\ dest = <<>>
    /\ fed = <<>>
    /\ mu = unlocked
    /\ interceptorsMu = unlocked
    /\ gor = noGoroutines

LimitAddInterceptor ==
    /\ Len(fed) < MaxAdds
    /\ \E i \in LimitInterceptors :
        LET res == AddInterceptor(i)
        IN  /\ interceptors' = res.registry
            /\ fed' = Append(fed, [op |-> "AddInterceptor", arg |-> i, err |-> res.err])
    /\ UNCHANGED <<globalConfig, heap, h, last, ops, pc, d, calls, dest, mu, gor,
                   interceptorsMu>>

\* GetInterceptors: a copy of the registry
GetInterceptors == interceptors

LimitGetInterceptors ==
    /\ last' = [op |-> "GetInterceptors", args |-> <<>>, recv |-> 0,
                ret |-> GetInterceptors, pre |-> zeroResponse]
    /\ UNCHANGED <<globalConfig, interceptors, heap, h, ops, pc, d, calls, dest, fed,
                   mu, gor, interceptorsMu>>

NextLimit ==
    \/ LimitAddInterceptor
    \/ LimitGetInterceptors

SpecLimit == InitLimit /\ [][NextLimit]_vars

-----------------------------------------------------------------------------
(* The status-named constructors, all of them, under a process-wide
   configuration that changes *)

\* msg ...string: no message, one, or two of which the first counts
ConstructorArgs == {<<>>, <<"missing">>, <<"missing", "ignored">>}

ConstructStatus ==
    \E name \in StatusNames, msg \in ConstructorArgs :
        New(name, msg, StatusConstructor(name, msg))

NextConstruct ==
    \/ DoSetConfig
    \/ ConstructStatus

SpecConstruct == Init /\ [][NextConstruct]_vars

-----------------------------------------------------------------------------
(* End to end: a response is built, traced by the caller and delivered through
   Send, no interceptor being registered *)

NextEndToEnd ==
    \/ DoSetConfig
    \/ DoStatusConstructor
    \/ DoWithTracePrefix
    \/ DoAddTrace
    \/ DoAddPrefixedTrace
    \/ DoSend
    \/ Snapshot
    \/ SetHeader
    \/ WriteHeader
    \/ EncodeOk
    \/ EncodeWriteFails

SpecEndToEnd == Init /\ [][NextEndToEnd]_vars

-----------------------------------------------------------------------------
(* The size guard on its own: a response, a limit set just below, at or just
   above its encoded size, validation on or off, then validateResponseSize *)

\* Configurations whose ResponseSizeLimit is around the encoded size of r
GuardConfigs(r) ==
    {[SmallConfig EXCEPT !.ResponseSizeLimit = encodedSize(r) + k,
                         !.EnableSizeValidation = on] :
        k \in -1..1, on \in BOOLEAN}

GuardWithConfig ==
    /\ h # 0
    /\ \E c \in GuardConfigs(heap[h]) :
           Call("WithConfig", <<c>>, WithConfig(heap[h], c))

\* validateResponseSize, as SendWithContext and IsWithinLimits call it
GuardValidate ==
    /\ pc = "build" /\ h # 0 /\ ops < MaxOps
    /\ last' = [op |-> "validateResponseSize", args |-> <<>>, recv |-> h,
                ret |-> validateResponseSize(heap[h]), pre |-> heap[h]]
    /\ ops' = ops + 1
    /\ UNCHANGED <<globalConfig, interceptors, heap, h, pc, d, calls, dest, fed, mu, gor,
                   interceptorsMu>>

NextGuard ==
    \/ DoStatusConstructor
    \/ DoWithData
    \/ DoAddTrace
    \/ GuardWithConfig
    \/ GuardValidate

SpecGuard == Init /\ [][NextGuard]_vars

-----------------------------------------------------------------------------
(* Goroutines calling the registry: AddInterceptor one lock operation at a
   time. gor[g] is where goroutine g stands: the call it is in, the argument,
   the configuration it copied, the calls it made, what each returned *)

Adders == {"a1", "a2", "a3"}

\* A goroutine that is inside no call: arg, config and ret are the locals of
\* the call it is in, n its calls so far, rets what AddInterceptor returned to it
idleTask ==
    [pc |-> "idle", arg |-> "", config |-> zeroConfig, ret |-> <<>>, n |-> 0,
     rets |-> <<>>]

\* The goroutines that run beside a delivery
admins == DOMAIN gor \ {"deliver"}

RECURSIVE callsOf(_)
\* The calls the goroutines of G have made so far
callsOf(G) ==
    IF G = {} THEN 0
    ELSE LET g == CHOOSE x \in G : TRUE IN gor[g].n + callsOf(G \ {g})

\* The goroutine exists and stands at this place
At(g, where) == g \in DOMAIN gor /\ gor[g].pc = where

\* The goroutine is free to call a process-wide operation
MayCall(g) ==
    /\ At(g, "idle") /\ gor[g].n < MaxTaskCalls
    /\ "deliver" \in DOMAIN gor => callsOf(admins) < MaxAdminCalls

\* Three goroutines under the limit m, the registry empty
InitAdders ==
    /\ \E m \in 1..MaxLimit : globalConfig = SetConfig(limitConfig(m))
    /\ interceptors = <<>>
    /\ heap = <<>>
    /\ h = 0
    /\ last = noCall
    /\ ops = 0
    /\ pc = "build"
    /\ d = noDelivery
    /\ calls = <<>>
    /\ dest = <<>>
    /\ fed = <<>>
    /\ mu = unlocked
    /\ interceptorsMu = unlocked
    /\ gor = [g \in Adders |-> idleTask]

\* The goroutine enters AddInterceptor(i) and reaches interceptorsMu.Lock()
EnterAddInterceptor(g, i) ==
    /\ gor' = [gor EXCEPT ![g] = [@ EXCEPT !.pc = "add.Lock", !.arg = i,
                                          !.ret = <<>>, !.n = @ + 1]]
    /\ interceptorsMu' = [interceptorsMu EXCEPT !.pending = @ \cup {g}]

\* A goroutine calls AddInterceptor
AddCall(g) ==
    /\ MayCall(g)
    /\ \E i \in Interceptors : EnterAddInterceptor(g, i)
    /\ UNCHANGED <<globalConfig, interceptors, heap, h, last, ops, pc, d, calls, dest,
                   fed, mu>>

\* A faulty AddInterceptor: it goes on without having acquired the lock
AddLock_NoLock(g) ==
    /\ At(g, "add.Lock")
    /\ interceptorsMu' = [interceptorsMu EXCEPT !.pending = @ \ {g}]
    /\ gor' = [gor EXCEPT ![g].pc = "add.RLock"]
    /\ UNCHANGED <<globalConfig, interceptors, heap, h, last, ops, pc, d, calls, dest,
                   fed, mu>>

\* AddInterceptor: interceptorsMu.Lock() returns
AddLock(g) ==
    /\ At(g, "add.Lock") /\ CanLock(interceptorsMu)
    /\ interceptorsMu' = [interceptorsMu EXCEPT !.writer = g, !.pending = @ \ {g}]
    /\ gor' = [gor EXCEPT ![g].pc = "add.RLock"]
    /\ UNCHANGED <<globalConfig, interceptors, heap, h, last, ops, pc, d, calls, dest,
                   fed, mu>>

\* AddInterceptor: getConfig's globalConfigMu.RLock() returns
AddRLock(g) ==
    /\ At(g, "add.RLock") /\ CanRLock(mu)
    /\ mu' = [mu EXCEPT !.readers = @ \cup {g}]
    /\ gor' = [gor EXCEPT ![g].pc = "add.getConfig"]
    /\ UNCHANGED <<globalConfig, interceptors, heap, h, last, ops, pc, d, calls, dest,
                   fed, interceptorsMu>>

\* AddInterceptor: config := getConfig(), with getConfig's deferred RUnlock
AddGetConfig(g) ==
    /\ At(g, "add.getConfig")
    /\ mu' = [mu EXCEPT !.readers = @ \ {g}]
    /\ gor' = [gor EXCEPT ![g] = [@ EXCEPT !.pc = "add.check", !.config = globalConfig]]
    /\ UNCHANGED <<globalConfig, interceptors, heap, h, last, ops, pc, d, calls, dest,
                   fed, interceptorsMu>>

\* AddInterceptor: the limit check, and the refusal when the registry is full
AddCheck(g) ==
    /\ At(g, "add.check")
    /\ gor' = [gor EXCEPT ![g] =
            IF Len(interceptors) >= gor[g].config.MaxInterceptorAmount
            THEN [@ EXCEPT !.pc = "add.Unlock",
                           !.ret = <<[Current |-> Len(interceptors),
                                      Max |-> gor[g].config.MaxInterceptorAmount]>>]
            ELSE [@ EXCEPT !.pc = "add.append"]]
    /\ UNCHANGED <<globalConfig, interceptors, heap, h, last, ops, pc, d, calls, dest,
                   fed, mu, interceptorsMu>>

\* AddInterceptor: interceptors = append(interceptors, interceptor); return nil
AddAppend(g) ==
    /\ At(g, "add.append")
    /\ interceptors' = Append(interceptors, gor[g].arg)
    /\ gor' = [gor EXCEPT ![g] = [@ EXCEPT !.pc = "add.Unlock", !.ret = <<>>]]
    /\ UNCHANGED <<globalConfig, heap, h, last, ops, pc, d, calls, dest, fed, mu,
                   interceptorsMu>>

\* AddInterceptor: the deferred interceptorsMu.Unlock(), and the return
AddUnlock(g) ==
    /\ At(g, "add.Unlock")
    /\ interceptorsMu' = [interceptorsMu EXCEPT
                              !.writer = IF @ = g THEN "" ELSE @]
    /\ gor' = [gor EXCEPT ![g] = [idleTask EXCEPT !.n = gor[g].n,
                    !.rets = Append(gor[g].rets, [op |-> "AddInterceptor",
                                                  arg |-> gor[g].arg,
                                                  err |-> gor[g].ret])]]
    /\ UNCHANGED <<globalConfig, interceptors, heap, h, last, ops, pc, d, calls, dest,
                   fed, mu>>

\* One step of a goroutine inside AddInterceptor
AddStep(g) ==
    \/ AddLock(g)
    \/ AddRLock(g)
    \/ AddGetConfig(g)
    \/ AddCheck(g)
    \/ AddAppend(g)
    \/ AddUnlock(g)

NextAdders == \E g \in Adders : AddCall(g) \/ AddStep(g)

SpecAdders == InitAdders /\ [][NextAdders]_vars

-----------------------------------------------------------------------------
(* A delivery among other goroutines: every operation on the registry and on
   the configuration one lock operation at a time. The goroutine "deliver"
   runs Send / SendWithContext, and inside an interceptor whatever the
   interceptor calls; every other goroutine calls the process-wide operations
   whenever it likes. fed remembers the registry at the instant the delivery got
   its read lock *)

Admins == {"a1", "a2"}

\* What an interceptor does when it is called, besides looking at the response
Behaviour ==
    [i1      |-> "plain",
     i2      |-> "plain",
     adder   |-> "AddInterceptor",
     clearer |-> "RemoveAllInterceptors",
     setter  |-> "SetConfig"]

\* Registries AddInterceptor has built under a limit of two
TaskRegistries ==
    {<<>>, <<"i1", "i2">>, <<"adder">>, <<"clearer", "i1">>, <<"setter", "i1">>}

\* A response under construction: within the size limit, above it, not encodable
TaskResponses ==
    {WithData(StatusConstructor("NotFound", <<"missing">>), data).recv :
        data \in DataInputs}

InitTasks ==
    /\ globalConfig = SetConfig(limitConfig(MaxLimit))
    /\ interceptors \in TaskRegistries
    /\ \E r \in TaskResponses : heap = <<r>>
    /\ h = 1
    /\ last = noCall
    /\ ops = 0
    /\ pc = "build"
    /\ d = noDelivery
    /\ calls = <<>>
    /\ dest = <<>>
    /\ fed = <<>>
    /\ mu = unlocked
    /\ interceptorsMu = unlocked
    /\ gor = [g \in {"a1", "deliver"} |-> idleTask]

\* One response above the size limit, a registry whose first interceptor
\* calls back into the package, and two goroutines besides the delivery
InitCrowd ==
    /\ globalConfig = SetConfig(limitConfig(MaxLimit))
    /\ interceptors \in {r \in TaskRegistries : r # <<>> /\ Behaviour[r[1]] # "plain"}
    /\ heap = <<WithData(StatusConstructor("NotFound", <<"missing">>), BigData).recv>>
    /\ h = 1
    /\ last = noCall
    /\ ops = 0
    /\ pc = "build"
    /\ d = noDelivery
    /\ calls = <<>>
    /\ dest = <<>>
    /\ fed = <<>>
    /\ mu = unlocked
    /\ interceptorsMu = unlocked
    /\ gor = [g \in {"a1", "a2", "deliver"} |-> idleTask]

(* RemoveAllInterceptors *)

\* The goroutine enters RemoveAllInterceptors and reaches interceptorsMu.Lock()
EnterRemoveAllInterceptors(g) ==
    /\ gor' = [gor EXCEPT ![g] = [@ EXCEPT !.pc = "remove.Lock", !.n = @ + 1]]
    /\ interceptorsMu' = [interceptorsMu EXCEPT !.pending = @ \cup {g}]

RemoveCall(g) ==
    /\ MayCall(g)
    /\ EnterRemoveAllInterceptors(g)
    /\ UNCHANGED <<globalConfig, interceptors, heap, h, last, ops, pc, d, calls, dest,
                   fed, mu>>

\* RemoveAllInterceptors: interceptorsMu.Lock() returns
RemoveLock(g) ==
    /\ At(g, "remove.Lock") /\ CanLock(interceptorsMu)
    /\ interceptorsMu' = [interceptorsMu EXCEPT !.writer = g, !.pending = @ \ {g}]
    /\ gor' = [gor EXCEPT ![g].pc = "remove.assign"]
    /\ UNCHANGED <<globalConfig, interceptors, heap, h, last, ops, pc, d, calls, dest,
                   fed, mu>>

\* RemoveAllInterceptors: interceptors = nil, and the deferred Unlock
RemoveAssign(g) ==
    /\ At(g, "remove.assign")
    /\ interceptors' = <<>>
    /\ interceptorsMu' = [interceptorsMu EXCEPT !.writer = ""]
    /\ gor' = [gor EXCEPT ![g].pc = "idle"]
    /\ UNCHANGED <<globalConfig, heap, h, last, ops, pc, d, calls, dest, fed, mu>>

RemoveStep(g) == RemoveLock(g) \/ RemoveAssign(g)

(* GetInterceptors *)

GetInterceptorsCall(g) ==
    /\ MayCall(g)
    /\ gor' = [gor EXCEPT ![g] = [@ EXCEPT !.pc = "list.RLock", !.n = @ + 1]]
    /\ UNCHANGED <<globalConfig, interceptors, heap, h, last, ops, pc, d, calls, dest,
                   fed, mu, interceptorsMu>>

\* GetInterceptors: interceptorsMu.RLock() returns
GetInterceptorsRLock(g) ==
    /\ At(g, "list.RLock") /\ CanRLock(interceptorsMu)
    /\ interceptorsMu' = [interceptorsMu EXCEPT !.readers = @ \cup {g}]
    /\ gor' = [gor EXCEPT ![g].pc = "list.copy"]
    /\ UNCHANGED <<globalConfig, interceptors, heap, h, last, ops, pc, d, calls, dest,
                   fed, mu>>

\* GetInterceptors: make, copy, and the deferred RUnlock
GetInterceptorsCopy(g) ==
    /\ At(g, "list.copy")
    /\ interceptorsMu' = [interceptorsMu EXCEPT !.readers = @ \ {g}]
    /\ gor' = [gor EXCEPT ![g].pc = "idle"]
    /\ UNCHANGED <<globalConfig, interceptors, heap, h, last, ops, pc, d, calls, dest,
                   fed, mu>>

GetInterceptorsStep(g) == GetInterceptorsRLock(g) \/ GetInterceptorsCopy(g)

(* SetConfig and GetConfig, each copy of the struct taken as a whole *)

\* The goroutine enters SetConfig(c) and reaches globalConfigMu.Lock()
EnterSetConfig(g, c) ==
    /\ gor' = [gor EXCEPT ![g] = [@ EXCEPT !.pc = "set.Lock", !.config = c,
                                          !.n = @ + 1]]
    /\ mu' = [mu EXCEPT !.pending = @ \cup {g}]

TaskSetConfigCall(g) ==
    /\ MayCall(g)
    /\ \E c \in ConcInputs : EnterSetConfig(g, c)
    /\ UNCHANGED <<globalConfig, interceptors, heap, h, last, ops, pc, d, calls, dest,
                   fed, interceptorsMu>>

\* SetConfig: globalConfigMu.Lock() returns
TaskSetConfigLock(g) ==
    /\ At(g, "set.Lock") /\ CanLock(mu)
    /\ mu' = [mu EXCEPT !.writer = g, !.pending = @ \ {g}]
    /\ gor' = [gor EXCEPT ![g].pc = "set.assign"]
    /\ UNCHANGED <<globalConfig, interceptors, heap, h, last, ops, pc, d, calls, dest,
                   fed, interceptorsMu>>

\* SetConfig: the validation block, globalConfig = config, the deferred Unlock
TaskSetConfigAssign(g) ==
    /\ At(g, "set.assign")
    /\ globalConfig' = SetConfig(gor[g].config)
    /\ mu' = [mu EXCEPT !.writer = ""]
    /\ gor' = [gor EXCEPT ![g] = [@ EXCEPT !.pc = "idle", !.config = zeroConfig]]
    /\ UNCHANGED <<interceptors, heap, h, last, ops, pc, d, calls, dest, fed,
                   interceptorsMu>>

TaskGetConfigCall(g) ==
    /\ MayCall(g)
    /\ gor' = [gor EXCEPT ![g] = [@ EXCEPT !.pc = "get.RLock", !.n = @ + 1]]
    /\ UNCHANGED <<globalConfig, interceptors, heap, h, last, ops, pc, d, calls, dest,
                   fed, mu, interceptorsMu>>

\* GetConfig: globalConfigMu.RLock() returns
TaskGetConfigRLock(g) ==
    /\ At(g, "get.RLock") /\ CanRLock(mu)
    /\ mu' = [mu EXCEPT !.readers = @ \cup {g}]
    /\ gor' = [gor EXCEPT ![g].pc = "get.return"]
    /\ UNCHANGED <<globalConfig, interceptors, heap, h, last, ops, pc, d, calls, dest,
                   fed, interceptorsMu>>

\* GetConfig: return globalConfig, and the deferred RUnlock
TaskGetConfigReturn(g) ==
    /\ At(g, "get.return")
    /\ mu' = [mu EXCEPT !.readers = @ \ {g}]
    /\ gor' = [gor EXCEPT ![g].pc = "idle"]
    /\ UNCHANGED <<globalConfig, interceptors, heap, h, last, ops, pc, d, calls, dest,
                   fed, interceptorsMu>>

ConfigStep(g) ==
    \/ TaskSetConfigLock(g)
    \/ TaskSetConfigAssign(g)
    \/ TaskGetConfigRLock(g)
    \/ TaskGetConfigReturn(g)

(* The delivery *)

\* A faulty SendWithContext: sendInternal is called without the size check
TaskSend_SkipsGuard(ctx) ==
    /\ pc = "build" /\ h # 0
    /\ d' = [recv |-> h, out |-> h, ctx |-> ctx, guard |-> <<>>, pre |-> heap[h],
             snap |-> <<>>, i |-> 1]
    /\ pc' = "snapshot"
    /\ UNCHANGED <<globalConfig, interceptors, heap, h, last, ops, calls, dest, fed, mu,
                   interceptorsMu, gor>>

\* Send / SendWithContext is called
TaskSend(ctx) ==
    /\ pc = "build" /\ h # 0
    /\ d' = [recv |-> h, out |-> h, ctx |-> ctx, guard |-> <<>>, pre |-> heap[h],
             snap |-> <<>>, i |-> 1]
    /\ pc' = "validate"
    /\ UNCHANGED <<globalConfig, interceptors, heap, h, last, ops, calls, dest, fed, mu,
                   interceptorsMu, gor>>

\* SendWithContext: r.validateResponseSize(), which reads the configuration
\* under globalConfigMu's read lock
TaskValidate ==
    /\ pc = "validate" /\ CanRLock(mu)
    /\ LET err == validateResponseSize(heap[d.recv])
       IN  /\ d' = [d EXCEPT !.guard = err]
           /\ pc' = IF err # <<>> THEN "substitute" ELSE "snapshot"
    /\ UNCHANGED <<globalConfig, interceptors, heap, h, last, ops, calls, dest, fed, mu,
                   interceptorsMu, gor>>

\* SendWithContext, the guard has failed: the heap after
\* r.WithCode(500).WithContentType(getConfig().DefaultContentType), and errorResp
errorResp(hp, ref) ==
    LET a1 == ApplyCall(hp, ref, WithCode(hp[ref], HTTPStatus.InternalServerError))
        a2 == ApplyCall(a1.heap, a1.ret,
                  WithContentType(a1.heap[a1.ret], getConfig.DefaultContentType))
    IN  [heap |-> a2.heap, out |-> a2.ret]

\* A faulty guard path: the substitute is sent with SendWithContext, which
\* validates it again
TaskSubstitute_SendsAgain ==
    /\ pc = "substitute" /\ CanRLock(mu)
    /\ LET s == errorResp(heap, d.recv)
       IN  /\ heap' = s.heap
           /\ d' = [d EXCEPT !.out = s.out, !.recv = s.out]
    /\ pc' = "validate"
    /\ UNCHANGED <<globalConfig, interceptors, h, last, ops, calls, dest, fed, mu,
                   interceptorsMu, gor>>

\* SendWithContext, the guard has failed: the substitute is made, with
\* getConfig().DefaultContentType, and handed to sendInternal
TaskSubstitute ==
    /\ pc = "substitute" /\ CanRLock(mu)
    /\ LET s == errorResp(heap, d.recv)
       IN  /\ heap' = s.heap
           /\ d' = [d EXCEPT !.out = s.out]
    /\ pc' = "snapshot"
    /\ UNCHANGED <<globalConfig, interceptors, h, last, ops, calls, dest, fed, mu,
                   interceptorsMu, gor>>

\* A faulty sendInternal: the registry is copied without the read lock
TaskRLock_NoLock ==
    /\ pc = "snapshot"
    /\ fed' = <<[op |-> "RLock", registry |-> interceptors]>>
    /\ pc' = "make"
    /\ UNCHANGED <<globalConfig, interceptors, heap, h, last, ops, d, calls, dest, mu,
                   interceptorsMu, gor>>

\* sendInternal: interceptorsMu.RLock() returns
TaskRLock ==
    /\ pc = "snapshot" /\ CanRLock(interceptorsMu)
    /\ interceptorsMu' = [interceptorsMu EXCEPT !.readers = @ \cup {"deliver"}]
    /\ fed' = <<[op |-> "RLock", registry |-> interceptors]>>
    /\ pc' = "make"
    /\ UNCHANGED <<globalConfig, interceptors, heap, h, last, ops, d, calls, dest, mu,
                   gor>>

\* sendInternal: make([]ResponseInterceptor, len(interceptors)), all nil
TaskMake ==
    /\ pc = "make"
    /\ d' = [d EXCEPT !.snap = [k \in 1..Len(interceptors) |-> "nil"]]
    /\ pc' = "copy"
    /\ UNCHANGED <<globalConfig, interceptors, heap, h, last, ops, calls, dest, fed, mu,
                   interceptorsMu, gor>>

\* sendInternal: copy(currentInterceptors, interceptors), as many elements as
\* the shorter of the two holds
TaskCopy ==
    /\ pc = "copy"
    /\ d' = [d EXCEPT !.snap = [k \in 1..Len(d.snap) |->
                  IF k <= Len(interceptors) THEN interceptors[k] ELSE d.snap[k]]]
    /\ pc' = "RUnlock"
    /\ UNCHANGED <<globalConfig, interceptors, heap, h, last, ops, calls, dest, fed, mu,
                   interceptorsMu, gor>>

\* A faulty sendInternal: the read lock is kept until sendInternal returns
TaskRUnlock_Deferred ==
    /\ pc = "RUnlock"
    /\ d' = [d EXCEPT !.i = 1]
    /\ pc' = "notify"
    /\ UNCHANGED <<globalConfig, interceptors, heap, h, last, ops, calls, dest, fed, mu,
                   interceptorsMu, gor>>

\* sendInternal: interceptorsMu.RUnlock(), before the loop
TaskRUnlock ==
    /\ pc = "RUnlock"
    /\ interceptorsMu' = [interceptorsMu EXCEPT !.readers = @ \ {"deliver"}]
    /\ d' = [d EXCEPT !.i = 1]
    /\ pc' = "notify"
    /\ UNCHANGED <<globalConfig, interceptors, heap, h, last, ops, calls, dest, fed, mu,
                   gor>>

\* The call sendInternal makes on the interceptor at position d.i
interceptorCall ==
    [interceptor |-> d.snap[d.i], kind |-> interceptKind(d.ctx),
     response |-> d.out, seen |-> heap[d.out], statusCode |-> heap[d.out].Code]

\* sendInternal: an interceptor that calls nothing is called and returns
TaskNotify ==
    /\ pc = "notify" /\ d.i <= Len(d.snap)
    /\ d.snap[d.i] \in DOMAIN Behaviour /\ Behaviour[d.snap[d.i]] = "plain"
    /\ Notify

\* sendInternal: an interceptor is called, and calls a process-wide operation
InterceptEnter ==
    /\ pc = "notify" /\ d.i <= Len(d.snap)
    /\ d.snap[d.i] \in DOMAIN Behaviour
    /\ calls' = Append(calls, interceptorCall)
    /\ pc' = "intercept"
    /\ CASE Behaviour[d.snap[d.i]] = "AddInterceptor" ->
                EnterAddInterceptor("deliver", "i1") /\ UNCHANGED mu
         [] Behaviour[d.snap[d.i]] = "RemoveAllInterceptors" ->
                EnterRemoveAllInterceptors("deliver") /\ UNCHANGED mu
         [] Behaviour[d.snap[d.i]] = "SetConfig" ->
                EnterSetConfig("deliver", SmallConfig) /\ UNCHANGED interceptorsMu
         [] OTHER -> FALSE
    /\ UNCHANGED <<globalConfig, interceptors, heap, h, last, ops, d, dest, fed>>

\* sendInternal: the operation has returned, the interceptor returns
InterceptReturn ==
    /\ pc = "intercept" /\ At("deliver", "idle")
    /\ d' = [d EXCEPT !.i = d.i + 1]
    /\ pc' = "notify"
    /\ UNCHANGED <<globalConfig, interceptors, heap, h, last, ops, calls, dest, fed, mu,
                   interceptorsMu, gor>>

\* sendInternal: the encode-failure path appends to the trace, which reads
\* the configuration under globalConfigMu's read lock
TaskEncodeFails ==
    /\ CanRLock(mu)
    /\ EncodeUnsupported \/ EncodeWriteFails

\* One step of SendWithContext and sendInternal after the call
TaskSendInternal ==
    \/ TaskValidate
    \/ TaskSubstitute
    \/ TaskRLock
    \/ TaskMake
    \/ TaskCopy
    \/ TaskRUnlock
    \/ TaskNotify
    \/ InterceptEnter
    \/ InterceptReturn
    \/ SetHeader
    \/ WriteHeader
    \/ EncodeOk
    \/ TaskEncodeFails

\* A goroutine calls a process-wide operation
TaskCall(g) ==
    \/ AddCall(g)
    \/ RemoveCall(g)
    \/ GetInterceptorsCall(g)
    \/ TaskSetConfigCall(g)
    \/ TaskGetConfigCall(g)

\* A goroutine inside a process-wide operation takes its next step
TaskStep(g) ==
    \/ AddStep(g)
    \/ RemoveStep(g)
    \/ GetInterceptorsStep(g)
    \/ ConfigStep(g)

\* One step of the delivery
TaskDeliver ==
    \/ \E ctx \in Contexts : TaskSend(ctx)
    \/ TaskSendInternal

\* One step of a goroutine beside the delivery, or of the operation an
\* interceptor called
TaskOthers ==
    \/ \E g \in Admins : TaskCall(g)
    \/ \E g \in Admins \cup {"deliver"} : TaskStep(g)

NextTasks ==
    \/ TaskDeliver
    \/ TaskOthers

SpecTasks == InitTasks /\ [][NextTasks]_vars

\* The scheduler runs every goroutine that can run, and a goroutine blocked
\* on a mutex gets it once the mutex stays free: the delivery keeps stepping,
\* and so does every goroutine inside an operation
TaskFairness ==
    /\ WF_vars(TaskSendInternal)
    /\ \A g \in Admins \cup {"deliver"} : WF_vars(TaskStep(g))

SpecTasksFair == InitTasks /\ [][NextTasks]_vars /\ TaskFairness

\* The crowd delivers with SendWithContext and a request's context
NextCrowd ==
    \/ TaskSend("request")
    \/ TaskSendInternal
    \/ TaskOthers

SpecCrowd == InitCrowd /\ [][NextCrowd]_vars

-----------------------------------------------------------------------------
(* Appends after the capacity has changed: a response that already holds
   entries, or one made by Base with any configuration, then SetConfig,
   WithConfig and appends in both modes in any order *)

\* A partial configuration with a negative trace capacity
NegativeConfig ==
    [MaxTraceSize         |-> -1,
     ResponseSizeLimit    |-> 150,
     MaxInterceptorAmount |-> 0,
     DefaultContentType   |-> "",
     EnableSizeValidation |-> FALSE]

RECURSIVE addTraces(_, _)
\* The response after k calls of AddTrace with one entry each
addTraces(r, k) ==
    IF k = 0 THEN r
    ELSE AddTrace(addTraces(r, k - 1),
                  <<[kind |-> "string", text |-> "e" \o Itoa(k)]>>).recv

\* The states after NotFound() and up to two AddTrace calls under the built-in
\* configuration, or after Base(&c) for a configuration c of any kind
InitLower ==
    /\ globalConfig = defaultConfig
    /\ \/ \E k \in 0..2 : heap = <<addTraces(StatusConstructor("NotFound", <<>>), k)>>
       \/ \E c \in ConfigInputs \cup {NegativeConfig} : heap = <<Base(<<<<c>>>>)>>
    /\ interceptors = <<>>
    /\ h = 1
    /\ last = noCall
    /\ ops = 0
    /\ pc = "build"
    /\ d = noDelivery
    /\ calls = <<>>
    /\ dest = <<>>
    /\ fed = <<>>
    /\ mu = unlocked
    /\ interceptorsMu = unlocked
    /\ gor = noGoroutines

\* The library appends a diagnostic of its own, as sendInternal does when
\* Encode fails
DoAppendInternal ==
    \E t \in TextEntries :
        Call("appendTraceInternal", <<t>>,
             appendTraceInternal(heap[h], "internal error", <<t>>))

\* appendTrace: a text entry of this mode finds the trace full and is written
\* over a slot (the marker in caller-facing mode, the text in internal mode)
overflowWrite_Unguarded(tr, config, force) == ~(Len(tr) < config.MaxTraceSize)

overflowWrite(tr, config, force) ==
    /\ ~(Len(tr) < config.MaxTraceSize)
    /\ \/ force /\ config.MaxTraceSize > 0
       \/ ~force /\ config.MaxTraceSize > 0

\* appendTrace: the index of r.Trace an overflow write uses, counted from 0
overflowIndex(config) == config.MaxTraceSize - 1

NextLower ==
    \/ DoSetConfig
    \/ DoWithConfig
    \/ DoAddTrace
    \/ DoAddPrefixedTrace
    \/ DoAppendInternal

SpecLower == InitLower /\ [][NextLower]_vars

-----------------------------------------------------------------------------
(* Overrides of every shape: one response built by a status-named
   constructor, WithConfig with any configuration of ConfigDomain, and the
   process-wide configuration replaced at any moment *)

\* Negative, zero and positive fields in every combination of set and unset
OverrideInputs ==
    {c \in ConfigDomain : c.ResponseSizeLimit >= 0 /\ c.MaxInterceptorAmount >= 0}
        \cup {NegativeConfig}

OverrideWithConfig ==
    \E c \in OverrideInputs : Call("WithConfig", <<c>>, WithConfig(heap[h], c))

NextOverride ==
    \/ DoSetConfig
    \/ DoStatusConstructor
    \/ OverrideWithConfig

SpecOverride == Init /\ [][NextOverride]_vars

-----------------------------------------------------------------------------
(* Content types set by the caller: any media type, one that is the
   default of some configuration, or the empty one, then WithConfig *)

ExplicitTypes == {"application/xml", "application/json", "text/plain", ""}

SetContentType ==
    \E ctype \in ExplicitTypes :
        Call("WithContentType", <<ctype>>, WithContentType(heap[h], ctype))

NextContentType ==
    \/ DoSetConfig
    \/ DoStatusConstructor
    \/ SetContentType
    \/ DoWithConfig

SpecContentType == Init /\ [][NextContentType]_vars

-----------------------------------------------------------------------------
(* Claims about the size guard of a delivery (specification Spec) *)

\* The delivery's size guard failed: validation on, estimate above the resolved limit
GuardFailed == d.guard # <<>> /\ d.guard[1].kind = "SizeLimitError"

\* The bodies written to the destination so far
WrittenBodies == {dest[i].body : i \in {j \in 1..Len(dest) : dest[j].op = "Write"}}

\* C1: when the size guard of a delivery fails, the body written to the
\* destination is that of a substituted internal-error response: it carries
\* neither the message, nor the data, nor the trace of the original response.
C1_SubstituteBodyEmitted ==
    GuardFailed =>
        \A b \in WrittenBodies :
            /\ b.code = HTTPStatus.InternalServerError
            /\ d.pre.Message # "" => b.message # d.pre.Message
            /\ d.pre.Data # NoData => b.data # d.pre.Data
            /\ d.pre.Trace # <<>> => b.trace # d.pre.Trace

\* C2: when the size guard of a delivery fails, the status code written to the
\* destination is 500, whatever code the response carried before the delivery.
C2_GuardFailureWrites500 ==
    GuardFailed =>
        \A i \in 1..Len(dest) :
            dest[i].op = "WriteHeader" => dest[i].code = HTTPStatus.InternalServerError

\* A guard failure of a response that carried 404, after the status was written
C2_Witness ==
    /\ GuardFailed
    /\ d.pre.Code = HTTPStatus.NotFound
    /\ \E i \in 1..Len(dest) : dest[i].op = "WriteHeader"

\* C3: when the size guard fails, no interceptor is invoked with the oversized
\* original: each call receives a response that is the internal-error response
\* and is itself within the limit the original exceeded.
C3_InterceptorsSeeSubstitute ==
    GuardFailed =>
        \A i \in 1..Len(calls) :
            /\ calls[i].seen.Code = HTTPStatus.InternalServerError
            /\ encodedSize(calls[i].seen) <= d.guard[1].Max

\* C4: when the size guard fails, the Content-Type written to the destination
\* is the content type the original response carried when the delivery began.
C4_ContentTypePreserved ==
    GuardFailed =>
        \A i \in 1..Len(dest) :
            dest[i].op = "Header.Set" => dest[i].value = d.pre.ContentType

\* C5: the response the size-guard failure path substitutes has a code in
\* [100,599] and a trace with an entry explaining the substitution, that is at
\* least one entry the original response's trace did not hold.
C5_SubstituteExplainsItself ==
    (GuardFailed /\ pc = "snapshot") =>
        LET r == heap[d.out]
        IN  /\ r.Code \in 100..599
            /\ \E i \in 1..Len(r.Trace) :
                   \A j \in 1..Len(d.pre.Trace) : r.Trace[i] # d.pre.Trace[j]

-----------------------------------------------------------------------------
(* Claims about the builder (specification SpecBuild) *)

\* C6: the Code of every Response obtained from a public constructor and any
\* sequence of builder calls is in [100,599] in every reachable state.
C6_CodeAlwaysValid ==
    \A i \in 1..Len(heap) : heap[i].Code \in 100..599

C8_BuildersReturnReceiver ==
    last.recv # 0 =>
        /\ last.ret = last.recv
        /\ (last.op = "WithCode" /\ last.args[1] \notin 100..599)
               => heap[last.recv].Code = HTTPStatus.InternalServerError

-----------------------------------------------------------------------------
(* Claims about the trace (specification SpecTrace) *)

\* The response of the trace harness and its effective trace capacity
traced == heap[1]
capacity == getResponseConfig(traced).MaxTraceSize

\* The text entries supplied so far, in order
fedText == SelectSeq(fed, LAMBDA f : IsText(f.entry))

\* The prefix a caller-facing entry is to be stored under
callerPrefix(f) ==
    IF f.api = "AddPrefixedTrace" /\ f.prefix # "" THEN f.prefix
    ELSE IF f.api = "AddTrace" /\ traced.TracePrefix # "" THEN traced.TracePrefix
    ELSE "trace"

stored(f) == callerPrefix(f) \o ": " \o f.entry.text

\* C9: with the capacity fixed at N >= 1, after k > N caller-facing text entries
\* on an initially empty trace the trace has exactly N entries, the first N-1
\* are the first N-1 entries supplied, in order, and the last is the marker
\* "Error: (trace truncated, max size: N)".
C9_OverflowTruncates ==
    Len(fedText) > capacity =>
        /\ Len(traced.Trace) = capacity
        /\ \A i \in 1..(capacity - 1) : traced.Trace[i] = stored(fedText[i])
        /\ traced.Trace[capacity] =
               "Error: (trace truncated, max size: " \o Itoa(capacity) \o ")"

\* Capacity 2, three text entries supplied, the first two of them different
C9_Witness ==
    /\ capacity = 2
    /\ Len(fedText) > 2
    /\ stored(fedText[1]) # stored(fedText[2])
    /\ Len(traced.Trace) = 2

\* C10: with the capacity fixed at N >= 1, after k <= N caller-facing text
\* entries on an initially empty trace the trace is exactly those k entries, in
\* the order supplied, each as prefix + ": " + text, and holds no marker.
C10_WithinCapacityVerbatim ==
    Len(fedText) <= capacity =>
        /\ Len(traced.Trace) = Len(fedText)
        /\ \A i \in 1..Len(fedText) : traced.Trace[i] = stored(fedText[i])
        /\ \A i \in 1..Len(traced.Trace) :
               traced.Trace[i] #
                   "Error: (trace truncated, max size: " \o Itoa(capacity) \o ")"

\* Capacity 2 filled exactly by two different text entries
C10_Witness ==
    /\ capacity = 2
    /\ Len(fedText) = 2
    /\ stored(fedText[1]) # stored(fedText[2])
    /\ Len(traced.Trace) = 2

-----------------------------------------------------------------------------
(* Claims about the two append modes (specification SpecAppend) *)

\* The response the handler holds, its trace and its effective trace capacity
appended == heap[h]
appendedCap == getResponseConfig(appended).MaxTraceSize

\* Every entry supplied so far was appended in internal mode
allInternal == \A i \in 1..Len(fed) : fed[i].api = "appendTraceInternal"

\* C11: with the capacity fixed at N >= 1, after k > N text entries appended in
\* internal mode to an initially empty trace the trace has exactly N entries,
\* none of them the truncation marker, and the last one is the text of the
\* final entry supplied.
C11_InternalLastWriteWins ==
    (allInternal /\ appendedCap >= 1 /\ Len(fedText) > appendedCap) =>
        /\ Len(appended.Trace) = appendedCap
        /\ \A i \in 1..Len(appended.Trace) :
               appended.Trace[i] #
                   "Error: (trace truncated, max size: " \o Itoa(appendedCap) \o ")"
        /\ appended.Trace[appendedCap] = fedText[Len(fedText)].entry.text

\* Capacity 2 and three internal text entries, the last two of them different
C11_Witness ==
    /\ allInternal
    /\ appendedCap = 2
    /\ Len(fedText) = 3
    /\ fedText[2].entry.text # fedText[3].entry.text
    /\ Len(appended.Trace) = 2

\* C12: a response whose effective trace capacity is 0 never stores an entry,
\* whatever is appended to it in either mode: its trace stays empty.
C12_ZeroCapacityStoresNothing ==
    appendedCap = 0 => appended.Trace = <<>>

\* Capacity 0, and text entries supplied in both modes
C12_Witness ==
    /\ appendedCap = 0
    /\ \E i \in 1..Len(fedText) : fedText[i].api = "appendTraceInternal"
    /\ \E i \in 1..Len(fedText) : fedText[i].api # "appendTraceInternal"

\* The prefix an entry is to be stored under, in either mode
entryPrefix(f) ==
    IF f.api = "appendTraceInternal" THEN f.prefix
    ELSE IF f.api = "AddPrefixedTrace" /\ f.prefix # "" THEN f.prefix
    ELSE IF f.api = "AddTrace" /\ appended.TracePrefix # "" THEN appended.TracePrefix
    ELSE "trace"

\* C14: every entry stored in the trace, other than the truncation marker, has
\* the form prefix + ": " + text of an entry supplied, in either mode, whether
\* it went to a free slot or over the last slot of a full trace.
C14_EntriesStoredPrefixed ==
    \A i \in 1..Len(appended.Trace) :
        \/ appended.Trace[i] =
               "Error: (trace truncated, max size: " \o Itoa(appendedCap) \o ")"
        \/ \E j \in 1..Len(fedText) :
               appended.Trace[i] = entryPrefix(fedText[j]) \o ": " \o fedText[j].entry.text

-----------------------------------------------------------------------------
(* Claims about the trace bound across configuration changes (specification
   SpecBuild) *)

\* C13: in every reachable state, whatever constructors, appends in either mode,
\* WithConfig and SetConfig calls came before, the trace of every response is no
\* longer than the MaxTraceSize of the configuration resolved for it.
C13_TraceWithinResolvedCapacity ==
    \A i \in 1..Len(heap) :
        Len(heap[i].Trace) <= getResponseConfig(heap[i]).MaxTraceSize

-----------------------------------------------------------------------------
(* Claims about the configuration store (specification SpecStore) *)

\* C15: after SetConfig(c), for every c, the store holds c with each
\* non-positive numeric field replaced by its default (50, 10 MiB, 20), an empty
\* DefaultContentType replaced by "application/json" and every other field,
\* EnableSizeValidation included, as given; and in every reachable state, the
\* initial one included, the stored configuration has positive numeric fields
\* and a non-empty content type.
C15_SetConfigNormalizes ==
    /\ globalConfig.MaxTraceSize > 0
    /\ globalConfig.ResponseSizeLimit > 0
    /\ globalConfig.MaxInterceptorAmount > 0
    /\ globalConfig.DefaultContentType # ""
    /\ last.op = "SetConfig" =>
           LET c == last.args[1]
           IN  /\ globalConfig.MaxTraceSize =
                      IF c.MaxTraceSize <= 0 THEN 50 ELSE c.MaxTraceSize
               /\ globalConfig.ResponseSizeLimit =
                      IF c.ResponseSizeLimit <= 0 THEN 10485760 ELSE c.ResponseSizeLimit
               /\ globalConfig.MaxInterceptorAmount =
                      IF c.MaxInterceptorAmount <= 0 THEN 20 ELSE c.MaxInterceptorAmount
               /\ globalConfig.DefaultContentType =
                      IF c.DefaultContentType = "" THEN "application/json"
                      ELSE c.DefaultContentType
               /\ globalConfig.EnableSizeValidation = c.EnableSizeValidation

\* SetConfig was called with a negative, a zero and a positive numeric field, an
\* empty content type and size validation off
C15_Witness ==
    /\ last.op = "SetConfig"
    /\ last.args[1].MaxTraceSize = -1
    /\ last.args[1].ResponseSizeLimit = 0
    /\ last.args[1].MaxInterceptorAmount = 2
    /\ last.args[1].DefaultContentType = ""
    /\ last.args[1].EnableSizeValidation = FALSE

-----------------------------------------------------------------------------
(* Claims about configuration resolution (specification SpecResolve) *)

\* The override of r has the zero value in all its numeric and string fields
zeroOverride(r) ==
    /\ r.config.MaxTraceSize = 0
    /\ r.config.ResponseSizeLimit = 0
    /\ r.config.MaxInterceptorAmount = 0
    /\ r.config.DefaultContentType = ""

\* The override of r has no positive numeric field and no content type
unsetOverride(r) ==
    /\ r.config.MaxTraceSize <= 0
    /\ r.config.ResponseSizeLimit <= 0
    /\ r.config.MaxInterceptorAmount <= 0
    /\ r.config.DefaultContentType = ""

-----------------------------------------------------------------------------
(* Claims about the store under concurrency (specification SpecConc) *)

\* Every argument some goroutine has passed to SetConfig so far
passed == UNION {gor[w].args : w \in Writers}

\* C16: under any interleaving of concurrent SetConfig calls and concurrent
\* readers, every configuration a reader obtains is, in all its fields at once,
\* the initial default or the normalized argument of one SetConfig call: never
\* a mix of two updates, never a value not yet normalized.
C16_ReadersSeeWholeUpdates ==
    \A r \in Readers :
        \A c \in gor[r].got :
            \/ c = defaultConfig
            \/ \E a \in passed :
                   /\ c.MaxTraceSize = IF a.MaxTraceSize <= 0 THEN 50 ELSE a.MaxTraceSize
                   /\ c.ResponseSizeLimit =
                          IF a.ResponseSizeLimit <= 0 THEN 10485760
                          ELSE a.ResponseSizeLimit
                   /\ c.MaxInterceptorAmount =
                          IF a.MaxInterceptorAmount <= 0 THEN 20
                          ELSE a.MaxInterceptorAmount
                   /\ c.DefaultContentType =
                          IF a.DefaultContentType = "" THEN "application/json"
                          ELSE a.DefaultContentType
                   /\ c.EnableSizeValidation = a.EnableSizeValidation

\* Two SetConfig calls with different arguments were made, one reader got the
\* default and the other an update, while a writer waits for the mutex
C16_Witness ==
    /\ gor["w1"].args # {} /\ gor["w2"].args # {} /\ gor["w1"].args # gor["w2"].args
    /\ gor["r1"].got = {defaultConfig}
    /\ gor["r2"].got # {} /\ gor["r2"].got # {defaultConfig}
    /\ \E w \in Writers : gor[w].pc = "Lock"

-----------------------------------------------------------------------------
(* Claims about the registry under a fixed limit (specification SpecLimit) *)

\* The limit in force
limit == globalConfig.MaxInterceptorAmount

\* C18: with MaxInterceptorAmount fixed at M and the registry empty at first,
\* the first M calls of AddInterceptor return nil and the registry holds their
\* interceptors in call order; every later call returns an InterceptorLimitError
\* with Current = M and Max = M and leaves the registry as it was.
C18_AddInterceptorUpToLimit ==
    /\ \A k \in 1..Len(fed) :
           fed[k].err = IF k <= limit THEN <<>>
                        ELSE <<[Current |-> limit, Max |-> limit]>>
    /\ interceptors =
           [k \in 1..(IF Len(fed) < limit THEN Len(fed) ELSE limit) |-> fed[k].arg]

\* Limit 2, four calls: two different interceptors accepted, two calls refused
C18_Witness ==
    /\ limit = 2
    /\ Len(fed) = 4
    /\ fed[1].arg # fed[2].arg
    /\ fed[4].err # <<>>
    /\ Len(interceptors) = 2

-----------------------------------------------------------------------------
(* Claims about the registry at start-up (specification SpecRegistry) *)

\* C19: in every reachable state, after any sequence of AddInterceptor,
\* RemoveAllInterceptors and SetConfig calls, the registry holds at most as
\* many interceptors as the MaxInterceptorAmount of the current process-wide
\* configuration.
C19_RegistryWithinLimit ==
    Len(interceptors) <= globalConfig.MaxInterceptorAmount

-----------------------------------------------------------------------------
(* Claims about the destination of a delivery (specification Spec) *)

\* The positions in dest of the operations of one kind
destOps(op) == {i \in 1..Len(dest) : dest[i].op = op}

\* C20: in every delivery the destination sees set-status-code, then
\* set-header (Content-Type), then the write of the serialized body, in that
\* order, each at most once.
C20_StatusThenHeaderThenBody ==
    /\ \A i \in destOps("WriteHeader"), j \in destOps("Header.Set") : i < j
    /\ \A j \in destOps("Header.Set"), k \in destOps("Write") : j < k
    /\ \A i \in destOps("WriteHeader"), k \in destOps("Write") : i < k
    /\ Cardinality(destOps("WriteHeader")) <= 1
    /\ Cardinality(destOps("Header.Set")) <= 1
    /\ Cardinality(destOps("Write")) <= 1

\* C20, amended: in every delivery the destination sees set-header
\* (Content-Type), then set-status-code, then the write of the serialized
\* body, in that order, each at most once.
C20_HeaderThenStatusThenBody ==
    /\ \A j \in destOps("Header.Set"), i \in destOps("WriteHeader") : j < i
    /\ \A i \in destOps("WriteHeader"), k \in destOps("Write") : i < k
    /\ \A j \in destOps("Header.Set"), k \in destOps("Write") : j < k
    /\ Cardinality(destOps("WriteHeader")) <= 1
    /\ Cardinality(destOps("Header.Set")) <= 1
    /\ Cardinality(destOps("Write")) <= 1
    /\ \A i \in 1..Len(dest) : dest[i].op \in {"Header.Set", "WriteHeader", "Write"}

\* A delivery that went through: interceptors notified, the three operations done
C20_Witness ==
    /\ pc = "delivered"
    /\ calls # <<>>
    /\ Cardinality(destOps("Header.Set")) = 1
    /\ Cardinality(destOps("WriteHeader")) = 1
    /\ Cardinality(destOps("Write")) = 1

-----------------------------------------------------------------------------
(* Claims about the interceptors of a delivery (specification Spec) *)

\* The loop over the snapshot has ended
loopDone == pc \in {"status", "body", "delivered", "delivered-with-encode-error"}

\* C21: in every delivery each interceptor of the snapshot has exactly one
\* capability invoked, exactly once: Intercept when the context supplied is
\* neither nil nor the background context, InterceptSimple otherwise; Send,
\* which supplies the background context, only ever invokes InterceptSimple.
C21_OneCapabilityPerInterceptor ==
    /\ Len(calls) <= Len(d.snap)
    /\ loopDone => Len(calls) = Len(d.snap)
    /\ \A i \in 1..Len(calls) :
           /\ calls[i].interceptor = d.snap[i]
           /\ calls[i].kind =
                  IF d.ctx = "request" THEN "Intercept" ELSE "InterceptSimple"

\* A delivery through Send with two interceptors registered, loop ended
C21_Witness ==
    /\ loopDone
    /\ d.ctx = "background"
    /\ Len(d.snap) = 2
    /\ Len(calls) = 2

\* C22: in every delivery the interceptors of the snapshot are invoked in
\* registration order, and the last of them has returned before the first
\* operation on the destination.
C22_InterceptorsBeforeDestination ==
    /\ \A i \in 1..Len(calls) : calls[i].interceptor = interceptors[i]
    /\ dest # <<>> => Len(calls) = Len(interceptors)

\* Two different interceptors registered and invoked, the header just set
C22_Witness ==
    /\ Len(interceptors) = 2
    /\ interceptors[1] # interceptors[2]
    /\ Len(calls) = 2
    /\ Len(dest) = 1

-----------------------------------------------------------------------------
(* Claims about a failed serialization (specification Spec) *)

\* The texts of the encoding-failure diagnostic
encodingDiagnostics ==
    {"encoding failed: json: unsupported type", "encoding failed: write failed"}

\* C24: when the serialization of the body fails, the header and the status
\* code have been written before, once each, and are not written again, the
\* body is not written a second time, and the encoding-failure diagnostic is on
\* the response's trace, also when the trace was full (capacity >= 1).
C24_EncodeFailureRecorded ==
    pc = "delivered-with-encode-error" =>
        /\ Cardinality(destOps("Header.Set")) = 1
        /\ Cardinality(destOps("WriteHeader")) = 1
        /\ Cardinality(destOps("Write")) <= 1
        /\ \A k \in destOps("Write") :
               /\ \A j \in destOps("Header.Set") : j < k
               /\ \A i \in destOps("WriteHeader") : i < k
        /\ \E i \in 1..Len(heap[d.out].Trace) :
               \E text \in encodingDiagnostics :
                   heap[d.out].Trace[i] \in {text, "internal error: " \o text}

\* The write of the body failed on a response whose trace was full
C24_Witness ==
    /\ pc = "delivered-with-encode-error"
    /\ destOps("Write") # {}
    /\ Len(d.pre.Trace) >= 1
    /\ Len(d.pre.Trace) = getResponseConfig(heap[d.out]).MaxTraceSize

-----------------------------------------------------------------------------
(* Claims about the status-named constructors (specification SpecConstruct) *)

\* The HTTP status each constructor is named after
documentedStatus ==
    [OK |-> 200, Created |-> 201, Accepted |-> 202, NoContent |-> 204,
     BadRequest |-> 400, Unauthorized |-> 401, PaymentRequired |-> 402,
     Forbidden |-> 403, NotFound |-> 404, MethodNotAllowed |-> 405,
     Conflict |-> 409, UnprocessableEntity |-> 422, TooManyRequests |-> 429,
     InternalServerError |-> 500, NotImplemented |-> 501, BadGateway |-> 502,
     ServiceUnavailable |-> 503]

\* C26: every status-named constructor produces a response whose Code is the
\* HTTP status of its name, whose timestamp is not the zero time, whose content
\* type is that of the process-wide configuration current at the call, and
\* whose message is the first message argument, or empty when there is none.
C26_ConstructorsPinStatus ==
    [][(h = 0 /\ h' # 0) =>
          LET r == heap'[h']
              name == last'.op
              msg == last'.args
          IN  /\ name \in DOMAIN documentedStatus
              /\ r.Code = documentedStatus[name]
              /\ r.Timestamp # "0001-01-01T00:00:00Z"
              /\ r.ContentType = globalConfig.DefaultContentType
              /\ r.Message = IF msg = <<>> THEN "" ELSE msg[1]]_vars

\* TooManyRequests("missing", "ignored") called after the process-wide content
\* type was changed
C26_Witness ==
    /\ h # 0
    /\ last.op = "TooManyRequests"
    /\ Len(last.args) = 2
    /\ heap[h].Code = 429
    /\ heap[h].ContentType = "text/plain"

-----------------------------------------------------------------------------
(* Claims about a delivery end to end (specification SpecEndToEnd) *)

\* A not-found response with a message, given exactly one caller-facing trace
\* entry by its last builder call, was delivered with size validation disabled
\* and no interceptor registered
tracedNotFoundDelivered ==
    /\ pc = "delivered"
    /\ d.pre.Code = 404
    /\ d.pre.Message = "missing"
    /\ last.op \in {"AddTrace", "AddPrefixedTrace"}
    /\ last.ret = d.recv
    /\ last.pre.Trace = <<>>
    /\ ~getResponseConfig(d.pre).EnableSizeValidation
    /\ d.snap = <<>>

\* The text of the one entry, and the prefix the caller gave or left to default
suppliedText == last.args[Len(last.args)].text
suppliedPrefix ==
    IF last.op = "AddPrefixedTrace" THEN last.args[1]
    ELSE IF d.pre.TracePrefix # "" THEN d.pre.TracePrefix
    ELSE "trace"

-----------------------------------------------------------------------------
(* Claims about the size validation (specification SpecGuard) *)

\* C28: the size validation succeeds without computing anything when
\* EnableSizeValidation is false in the resolved configuration; when it is
\* true, it fails with a SizeLimitError carrying (estimated size, resolved
\* limit) exactly when the estimated size is strictly greater than the
\* resolved ResponseSizeLimit, and succeeds when the size is equal or below.
C28_SizeValidation ==
    last.op = "validateResponseSize" =>
        LET r == last.pre
            config == getResponseConfig(r)
            err == last.ret
        IN  /\ ~config.EnableSizeValidation => err = <<>>
            /\ (config.EnableSizeValidation /\ r.Data.kind # "chan") =>
                   /\ encodedSize(r) > config.ResponseSizeLimit =>
                          err = <<[kind |-> "SizeLimitError", Size |-> encodedSize(r),
                                   Max |-> config.ResponseSizeLimit]>>
                   /\ encodedSize(r) <= config.ResponseSizeLimit => err = <<>>
            /\ (err # <<>> /\ err[1].kind = "SizeLimitError") =>
                   /\ config.EnableSizeValidation
                   /\ encodedSize(r) > config.ResponseSizeLimit

\* Validation on, a response with data whose size is exactly the limit: success
C28_Witness ==
    /\ last.op = "validateResponseSize"
    /\ last.pre.Data.kind = "json"
    /\ getResponseConfig(last.pre).EnableSizeValidation
    /\ encodedSize(last.pre) = getResponseConfig(last.pre).ResponseSizeLimit
    /\ last.ret = <<>>

-----------------------------------------------------------------------------
(* Claims about concurrent registrations (specification SpecAdders) *)

\* The AddInterceptor calls that have returned nil
nilReturns ==
    {<<g, k>> \in (DOMAIN gor) \X (1..MaxTaskCalls) :
        k <= Len(gor[g].rets) /\ gor[g].rets[k].err = <<>>}

\* C30: under any interleaving of concurrent AddInterceptor calls with the
\* process-wide MaxInterceptorAmount fixed at M, the number of calls that
\* return nil never exceeds M and the registry never holds more than M
\* interceptors: at most one call at a time is between its Lock and its
\* Unlock, so check and append of one call are atomic to every other call.
C30_AddInterceptorAtomic ==
    /\ Cardinality(nilReturns) <= globalConfig.MaxInterceptorAmount
    /\ Len(interceptors) <= globalConfig.MaxInterceptorAmount
    /\ Cardinality({g \in DOMAIN gor :
            gor[g].pc \in {"add.RLock", "add.getConfig", "add.check", "add.append",
                          "add.Unlock"}}) <= 1

\* The registry is full, every goroutine has called, and one was refused
C30_Witness ==
    /\ Len(interceptors) = globalConfig.MaxInterceptorAmount
    /\ \A g \in DOMAIN gor : gor[g].pc = "idle" /\ Len(gor[g].rets) = 1
    /\ \E g \in DOMAIN gor : gor[g].rets[1].err # <<>>
    /\ Cardinality(nilReturns) = globalConfig.MaxInterceptorAmount

-----------------------------------------------------------------------------
(* Claims about the two locks (specification SpecCrowd) *)

\* The delivery has reached one of its terminal states
Terminal == pc \in {"delivered", "delivered-with-encode-error"}

\* The goroutine holds the mutex, for reading or for writing
Holds(m, g) == m.writer = g \/ g \in m.readers

\* The goroutine is blocked on, or about to ask for, the registry lock
WantsRegistry(g) ==
    \/ gor[g].pc \in {"add.Lock", "remove.Lock", "list.RLock"}
    \/ g = "deliver" /\ pc = "snapshot"

\* C29: no interleaving of SetConfig, GetConfig, AddInterceptor,
\* RemoveAllInterceptors, GetInterceptors and a delivery reaches a deadlock:
\* while the delivery is under way or a goroutine is inside an operation,
\* one of them can take a step; no goroutine that holds the configuration
\* lock wants the registry lock (the two are nested registry first); the
\* delivery's read lock on the registry is released before the first
\* interceptor runs and stays released while the body is written, and outside
\* an interceptor the delivering goroutine holds no lock at all.
C29_NoDeadlock ==
    /\ (pc \notin {"build", "delivered", "delivered-with-encode-error"}
            \/ \E g \in DOMAIN gor : gor[g].pc # "idle")
           => ENABLED (TaskSendInternal \/ \E g \in DOMAIN gor : TaskStep(g))
    /\ \A g \in DOMAIN gor : Holds(mu, g) => ~WantsRegistry(g)
    /\ pc \in {"notify", "intercept", "status", "body", "delivered",
               "delivered-with-encode-error"}
           => "deliver" \notin interceptorsMu.readers
    /\ pc \in {"notify", "status", "body", "delivered", "delivered-with-encode-error"}
           => ~Holds(mu, "deliver") /\ ~Holds(interceptorsMu, "deliver")

\* A delivery is complete whose interceptor called AddInterceptor and got
\* its answer, while both other goroutines made their calls
C29_Witness ==
    /\ Terminal
    /\ \E k \in 1..Len(calls) : calls[k].interceptor = "adder"
    /\ Len(gor["deliver"].rets) = 1
    /\ \A g \in admins : gor[g].n = 1 /\ gor[g].pc = "idle"
    /\ Cardinality(admins) = 2

-----------------------------------------------------------------------------
(* Claims about the snapshot of a delivery (specification SpecTasks) *)

\* The delivery has taken its read lock on the registry
SnapshotTaken == fed # <<>>

\* The registry at the instant the delivery took its read lock
atSnapshot == fed[1].registry

\* The interceptors the delivery has invoked so far, in order
invoked == [k \in 1..Len(calls) |-> calls[k].interceptor]

\* The loop over the snapshot has ended
loopEnded ==
    pc \in {"status", "body", "delivered", "delivered-with-encode-error"}

\* C23: the interceptors a delivery invokes are the registry's contents at
\* the instant the delivery took its snapshot: the copy, once made, is that
\* list whole (no nil slot, nothing missing), what has been invoked so far is
\* a prefix of it, and all of it once the loop has ended, whatever
\* AddInterceptor or RemoveAllInterceptors did to the registry since, called
\* by another goroutine or by an interceptor of this delivery.
C23_SnapshotIsRegistryAtInstant ==
    /\ pc \in {"RUnlock", "notify", "intercept"} \/ loopEnded
           => SnapshotTaken /\ d.snap = atSnapshot
    /\ SnapshotTaken => /\ Len(invoked) <= Len(atSnapshot)
                        /\ invoked = SubSeq(atSnapshot, 1, Len(invoked))
    /\ loopEnded => invoked = atSnapshot

\* A delivery has invoked both interceptors of its snapshot although the
\* registry was changed after the snapshot, by one of the two and by another
\* goroutine
C23_Witness ==
    /\ loopEnded /\ Len(invoked) = 2
    /\ interceptors # atSnapshot
    /\ invoked[1] = "clearer"
    /\ gor["a1"].rets # <<>> /\ gor["a1"].rets[1].err = <<>>

-----------------------------------------------------------------------------
(* Claims about the end of a delivery (specification SpecTasksFair) *)

\* C25: every delivery started by Send or SendWithContext, each interceptor
\* call returning, eventually reaches a terminal state, delivered or
\* delivered-with-encode-error, and stays in the one it reached; also when
\* the size guard fails, and also while another goroutine calls SetConfig,
\* AddInterceptor or RemoveAllInterceptors.
C25_DeliveryTerminates ==
    /\ (pc # "build") ~> Terminal
    /\ [][Terminal => pc' = pc]_vars

\* A delivery whose size guard failed has ended, after an interceptor of it
\* and another goroutine each called a process-wide operation
C25_Witness ==
    /\ Terminal
    /\ d.guard # <<>> /\ d.out # 0
    /\ calls # <<>> /\ Behaviour[calls[1].interceptor] # "plain"
    /\ gor["a1"].n = 1 /\ gor["a1"].pc = "idle"

-----------------------------------------------------------------------------
(* Claims about the order of a delivery's steps (specification SpecTasks) *)

\* C31: the size check of a delivery is evaluated exactly once per call of
\* Send / SendWithContext, and it completes before the registry snapshot is
\* taken, before the first interceptor is invoked and before the first
\* operation on the destination: until the check has completed nothing is
\* snapshotted, invoked or written; the check is entered from the call only
\* and never again; the snapshot is reached only through the check.
C31_GuardOnceAndFirst ==
    /\ [](pc \in {"build", "validate"} =>
              fed = <<>> /\ d.snap = <<>> /\ calls = <<>> /\ dest = <<>>)
    /\ [][pc' = "validate" => pc \in {"build", "validate"}]_vars
    /\ [][pc' \in {"snapshot", "substitute"} =>
              pc \in {"validate", "substitute", "snapshot"}]_vars

\* A delivery whose check passed has snapshotted a registry of two, invoked
\* both interceptors and written to the destination
C31_Witness ==
    /\ pc = "delivered" /\ d.guard = <<>>
    /\ fed # <<>> /\ Len(calls) = 2 /\ Len(dest) = 3

-----------------------------------------------------------------------------
(* Claims about the original response on the guard-failure path
   (specification Spec) *)

\* C32: on the size-guard failure path the substitute is a fresh response:
\* the response object handed to Send keeps the code, content type, message,
\* data and trace it had when the delivery began.
C32_OriginalUntouched ==
    (d.guard # <<>> /\ pc = "snapshot") =>
        /\ d.out # d.recv
        /\ heap[d.recv].Code = d.pre.Code
        /\ heap[d.recv].ContentType = d.pre.ContentType
        /\ heap[d.recv].Message = d.pre.Message
        /\ heap[d.recv].Data = d.pre.Data
        /\ heap[d.recv].Trace = d.pre.Trace

-----------------------------------------------------------------------------
(* Claims about a full trace (specification SpecTrace) *)

\* The text entries of the call a step makes, as they are to be stored
suppliedNow ==
    LET new == SelectSeq(SubSeq(fed', Len(fed) + 1, Len(fed')),
                         LAMBDA f : IsText(f.entry))
    IN  [i \in 1..Len(new) |-> stored(new[i])]

\* The truncation marker of the harness's capacity
marker == "Error: (trace truncated, max size: " \o Itoa(capacity) \o ")"

\* C33: once a trace is at capacity N >= 1 and its last slot holds the
\* truncation marker, every further caller-facing append, with any number of
\* entries, leaves the trace unchanged; and a caller-facing call that hits
\* capacity part-way through its entries fills the trace up to N, writes the
\* marker once, over the last slot, and stores none of the remaining entries.
C33_FullTraceStaysAsItIs ==
    /\ [][(Len(traced.Trace) = capacity /\ traced.Trace[capacity] = marker)
              => heap'[1].Trace = traced.Trace]_vars
    /\ [][(Len(traced.Trace) < capacity
              /\ Len(traced.Trace) + Len(suppliedNow) > capacity)
              => LET all == traced.Trace \o suppliedNow
                 IN  /\ Len(heap'[1].Trace) = capacity
                     /\ \A i \in 1..(capacity - 1) : heap'[1].Trace[i] = all[i]
                     /\ \A i \in 1..capacity :
                            heap'[1].Trace[i] = marker <=> i = capacity]_vars

\* Capacity 1 and four text entries in at least two calls: the later call
\* found the marker in the only slot
C33_Witness ==
    /\ capacity = 1
    /\ Len(fedText) = 4
    /\ traced.Trace = <<"Error: (trace truncated, max size: 1)">>

-----------------------------------------------------------------------------
(* Claims about diagnostics under trace pressure (specification SpecAppend) *)

\* The positions in fedText of the entries appended in internal mode
internalAt == {j \in 1..Len(fedText) : fedText[j].api = "appendTraceInternal"}

\* The last entry appended in internal mode
lastInternal == fedText[CHOOSE j \in internalAt : \A k \in internalAt : k <= j]

\* C34: once an internal-mode append has written a diagnostic entry to a
\* response whose effective trace capacity is at least 1, the text of that
\* entry stays present in the response's trace, with its prefix or bare,
\* across any later caller-facing appends, however full the trace is.
C34_DiagnosticSurvives ==
    (appendedCap >= 1 /\ internalAt # {}) =>
        \E i \in 1..Len(appended.Trace) :
            \/ appended.Trace[i] = lastInternal.entry.text
            \/ appended.Trace[i] =
                   lastInternal.prefix \o ": " \o lastInternal.entry.text

-----------------------------------------------------------------------------
(* Claims about overflow writes after the capacity changed (specification
   SpecLower) *)

\* C35: whenever an append in either mode performs an overflow write (the
\* trace keeps its length and changes), the slot it overwrites is the final
\* element of the trace, also where the effective capacity was lowered by
\* SetConfig or WithConfig after entries had been stored.
C35_OverflowWritesFinalSlot ==
    [][\A ref \in DOMAIN heap :
          (Len(heap'[ref].Trace) = Len(heap[ref].Trace)
              /\ heap'[ref].Trace # heap[ref].Trace)
          => \A k \in 1..(Len(heap[ref].Trace) - 1) :
                 heap'[ref].Trace[k] = heap[ref].Trace[k]]_vars

\* C36: in every reachable state, after any sequence of SetConfig, WithConfig,
\* Base with an arbitrary configuration and appends in either mode, the index
\* MaxTraceSize-1 an overflow write would use on any response lies inside
\* that response's trace: no append fails with an index out of range.
C36_OverflowIndexInRange ==
    \A ref \in DOMAIN heap, force \in BOOLEAN :
        LET r == heap[ref]
            config == getResponseConfig(r)
        IN  overflowWrite(r.Trace, config, force) =>
                overflowIndex(config) \in 0..(Len(r.Trace) - 1)

\* An internal append has just written over a slot of a trace that is longer
\* than the capacity now in force
C36_Witness ==
    /\ last.op = "appendTraceInternal"
    /\ heap[h].Trace # last.pre.Trace
    /\ Len(heap[h].Trace) = Len(last.pre.Trace)
    /\ Len(heap[h].Trace) > getResponseConfig(heap[h]).MaxTraceSize

-----------------------------------------------------------------------------
(* Claims about entries that are no text (specification SpecTrace) *)

\* The entries of the call a step makes
fedNow == SubSeq(fed', Len(fed) + 1, Len(fed'))

\* The entry is a string, an error or a Stringer
textual(f) == f.entry.kind \in {"string", "error", "stringer"}

\* The textual entries of the call a step makes, as they are to be stored
textualNow ==
    LET new == SelectSeq(fedNow, textual)
    IN  [i \in 1..Len(new) |-> stored(new[i])]

\* C37: a trace entry that is neither a string, an error nor a Stringer is
\* skipped without any effect: a call of such entries only leaves the trace
\* as it was, full or not, marker or not; and in a call that mixes them with
\* text entries they take no slot and stop nothing, so that text entries that
\* fit are all stored, in order, after what was there.
C37_OtherEntriesSkipped ==
    /\ [][(\A i \in 1..Len(fedNow) : ~textual(fedNow[i]))
              => heap'[1].Trace = traced.Trace]_vars
    /\ [][Len(traced.Trace) + Len(textualNow) <= capacity
              => heap'[1].Trace = traced.Trace \o textualNow]_vars

\* An entry that is no text was supplied right before a text entry, and the
\* trace is full of text entries, without a marker: the skipped one took no slot
C37_Witness ==
    /\ \E i \in 1..(Len(fed) - 1) :
           fed[i].entry.kind = "other" /\ fed[i + 1].entry.kind = "string"
    /\ Len(SelectSeq(fed, textual)) = capacity
    /\ Len(traced.Trace) = capacity
    /\ traced.Trace[capacity] = stored(fed[Len(fed)])

-----------------------------------------------------------------------------
(* Claims about the instance prefix (specification SpecTrace) *)

\* The prefix the response's trace prefix promises an entry: the explicit one
\* if it is not empty, else the response's, else "trace"
promisedPrefix(f) ==
    IF f.prefix # "" THEN f.prefix
    ELSE IF traced.TracePrefix # "" THEN traced.TracePrefix
    ELSE "trace"

\* C38: after WithTracePrefix(p) with p non-empty, every caller-facing entry
\* appended without a non-empty explicit prefix (AddTrace, and
\* AddPrefixedTrace called with the empty prefix) is stored under prefix p;
\* only when no trace prefix is set on the response is "trace" used.
C38_InstancePrefixApplies ==
    Len(fedText) <= capacity =>
        /\ Len(traced.Trace) = Len(fedText)
        /\ \A i \in 1..Len(fedText) :
               traced.Trace[i] =
                   promisedPrefix(fedText[i]) \o ": " \o fedText[i].entry.text

(* Claims about the override set by WithConfig (specification SpecOverride) *)

\* The configuration c with every unset field replaced by the built-in default
withBuiltIns(c) ==
    [MaxTraceSize         |-> IF c.MaxTraceSize <= 0 THEN 50 ELSE c.MaxTraceSize,
     ResponseSizeLimit    |-> IF c.ResponseSizeLimit <= 0 THEN 10485760
                              ELSE c.ResponseSizeLimit,
     MaxInterceptorAmount |-> IF c.MaxInterceptorAmount <= 0 THEN 20
                              ELSE c.MaxInterceptorAmount,
     DefaultContentType   |-> IF c.DefaultContentType = "" THEN "application/json"
                              ELSE c.DefaultContentType,
     EnableSizeValidation |-> c.EnableSizeValidation]

\* C39: after r.WithConfig(c), for every configuration c (the all-zero one
\* too), the configuration resolved for r is c with its unset fields replaced
\* by the built-in defaults, whatever the process-wide configuration is and
\* whatever SetConfig is called afterwards; a response built by a status-named
\* constructor with no WithConfig resolves to the process-wide configuration
\* current at the moment of the resolution.
C39_OverrideResolvesNormalized ==
    h # 0 =>
        /\ last.op = "WithConfig" =>
               getResponseConfig(heap[h]) = withBuiltIns(last.args[1])
        /\ last.op \in {"OK", "NotFound"} =>
               getResponseConfig(heap[h]) = globalConfig

\* The all-zero override on a response while the process-wide configuration
\* is another one: the built-in defaults are resolved, not the process-wide ones
C39_Witness ==
    /\ h # 0
    /\ last.op = "WithConfig"
    /\ last.args[1].MaxTraceSize = 0
    /\ last.args[1].ResponseSizeLimit = 0
    /\ last.args[1].MaxInterceptorAmount = 0
    /\ last.args[1].DefaultContentType = ""
    /\ globalConfig.MaxTraceSize = 2
    /\ getResponseConfig(heap[h]).MaxTraceSize = 50
    /\ ops = 3

(* Claims about the content type under WithConfig (specification SpecContentType) *)

\* C40: WithConfig replaces a response's content type by the new
\* configuration's default only if the content type was not explicitly set: a
\* content type the caller set with WithContentType, whatever its value, is
\* left unchanged by a later WithConfig.
C40_ExplicitContentTypeKept ==
    [][(h # 0 /\ last.op = "WithContentType" /\ last'.op = "WithConfig")
          => /\ heap'[h'].ContentType = last.args[1]
             /\ heap[h].ContentType = last.args[1]]_vars

====
